---- MODULE Spec2Model ----
(***************************************************************************)
(* State-machine model of the mapper-influences backend: the activity      *)
(* tracker (bounded ring, backfill, spam filter, live stream, broadcast),  *)
(* the credential-grant token manager and the cached id requester.         *)
(***************************************************************************)
EXTENDS Integers, Sequences, FiniteSets, TLC

(***************************************************************************)
(* Bounds of the model.                                                    *)
(***************************************************************************)
\* rows the activity table may hold when the backend starts
MaxTable == 2
\* rows the activity table may hold in total (startup rows + live creates)
MaxActivities == 3
\* largest queue_size the tracker is constructed with
MaxQueueSize == 2
\* rows of the activity table the backfill walks
MaxBackfillTable == 5
\* beatmap ids of the beatmap-showcase scenario
MaxBeatmaps == 7
\* beatmaps user 1 showcased before the backend started
MaxUserBeatmapRows == 6
\* concurrent callers of get_access_token
MaxCallers == 2
\* tokens the background task acquires
MaxTokens == 2
\* ticks of the clock
MaxTime == 3
\* requests to the token endpoint the model follows
MaxTokenRequests == 3
\* longest keys slice passed to request_multiple
MaxKeys == 101
\* requests other callers make while request_multiple runs
MaxDirect == 1
\* largest number of permits the Semaphore is created with
MaxPermits == 2
\* attempts of one retry_until_success call the model follows
MaxAttempts == 12
\* largest longest_cooldown tried besides the one the callers pass
MaxLongestCooldown == 4
\* bytes of text beyond MAX_DESC_LENGTH that a request carries
MaxTextOver == 1

\* the expires_in values upstream grants, in ticks
MaxExpiresIn == 2

\* the logins served
MaxLogins == 2

\* the rows a leaderboard grows to while two clients read it
MaxLbRows == 2

\* rows and page size beyond leaderboard_cache_limit that a paging client sees
MaxPageOver == 1
\* notifications waiting in the live query stream
MaxNotifications == 2
\* recorded calls of the spam filter
MaxSpamCalls == 2
\* seconds by which a granted expires_in exceeds the buffer time
MaxExpiresOver == 2
\* sleeps of the token task the model follows
MaxSleeps == 2
\* times the live query is lost
MaxReconnects == 2
\* beatmaps of one influence edge
MaxEdgeBeatmaps == 3
\* users an influence edge can point to
MaxTargets == 3
\* length of the list given to set_influence_order
MaxOrderList == 3

\* the cache's expire_in, in ticks
expire_in == 1

(***************************************************************************)
(* Activities (src/handlers/activity.rs, Activity / ActivityType).         *)
(* An event is what a write stores in the activity table; the database     *)
(* adds created_at.  influence = 0 / beatmap = 0 stand for "no such        *)
(* field".  enriched tells BeatmapEnum::All from BeatmapEnum::Id.          *)
(***************************************************************************)
NoActivity == [created_at |-> 0, user |-> 0, kind |-> "NONE",
               influence |-> 0, beatmap |-> 0, enriched |-> FALSE]

Event(u, k, t, b) == [user |-> u, kind |-> k, influence |-> t, beatmap |-> b]

Activity(e, at) == [created_at |-> at, user |-> e.user, kind |-> e.kind,
                    influence |-> e.influence, beatmap |-> e.beatmap,
                    enriched |-> FALSE]

\* events of the general scenario: every event type, two actors, two targets
MixedEvents ==
    { Event(1, "LOGIN", 0, 0),
      Event(1, "EDIT_BIO", 0, 0),
      Event(2, "EDIT_BIO", 0, 0),
      Event(1, "ADD_INFLUENCE", 7, 0),
      Event(1, "ADD_INFLUENCE", 8, 0),
      Event(2, "ADD_INFLUENCE", 7, 0),
      Event(1, "EDIT_INFLUENCE_DESC", 7, 0),
      Event(1, "EDIT_INFLUENCE_TYPE", 7, 0),
      Event(1, "REMOVE_INFLUENCE", 7, 0),
      Event(1, "ADD_USER_BEATMAP", 0, 1),
      Event(1, "REMOVE_USER_BEATMAP", 0, 1),
      Event(1, "REMOVE_INFLUENCE_BEATMAP", 7, 1) }

VARIABLES
    \* ---- database and upstream ----
    activity_table,     \* rows of the activity table, ascending created_at
    stream,             \* notifications of the live query not yet consumed
    upstream,           \* beatmap ids the upstream API resolves
    \* ---- ActivityTracker ----
    activity_queue,     \* the ring (VecDeque<Activity>), head first
    queue_size,
    task_pc,            \* position of ActivityTracker::new / the streaming task
    index,              \* set_initial_activities: offset of the current page
    activity_chunk,     \* set_initial_activities: records of the page still to visit
    activity_chunk_len, \* set_initial_activities: length of the page as fetched
    new_activity,       \* the activity the filter was last applied to
    spam_result,        \* what spam_prevention returned for new_activity
    \* ---- one WebSocket subscriber (ws_handler / handle_socket) ----
    sub_pc,             \* position of the connection
    initial_message,    \* the snapshot new_connection serialized
    broadcast_receiver, \* frames buffered in the subscriber's Receiver
    ws_frames,          \* text frames written to the socket so far
    \* ---- CredentialsGrantClient ----
    token,              \* RwLock<Option<String>>: 0 is None, n > 0 the n-th token
    start_sender,       \* Option<oneshot::Sender>: TRUE while not taken
    start_channel,      \* the start message has been sent and not yet received
    end_receiver,       \* Option<oneshot::Receiver>: TRUE while not taken
    end_channel,        \* the end message has been sent
    loop_pc,            \* position of the background task of start_loop
    loop_token,         \* the token the background task last acquired
    caller_pc,          \* position of each get_access_token call
    caller_token,       \* what each call returned (0: nothing yet)
    \* ---- CachedRequester ----
    store,              \* CustomCache.store: entries [key, at], head first
    now,                \* the clock Instant::now() reads
    req_pc,             \* position of each get_multiple_osu call
    req_ids,            \* its ids argument
    cache_result,       \* its MultipleCacheResults [hits, misses]
    misses_requested,   \* the ids of the values upstream returned for its misses
    req_result,         \* what it returned
    cache_return,       \* what the last operation on the TTL cache returned
    \* ---- the token endpoint, as CredentialsGrantClient uses it ----
    token_log,          \* outcome of each get_client_credentials_token so far
    \* ---- OsuApiRequestClient and Requester::request_multiple ----
    concurrent_requests,\* permits the Semaphore was created with
    permit,             \* per request: it holds a SemaphorePermit
    http_pc,            \* per request: position in get_request and its caller
    http_chunk,         \* per request: the ids its url carries
    http_body,          \* per request: the response body read
    gets_issued,        \* per request: the GETs it sent upstream
    rm_pc,              \* position of the request_multiple call
    rm_keys,            \* its keys argument
    handlers,           \* its JoinHandles: the requests spawned, in chunk order
    rm_result,          \* what it returned
    \* ---- Retry (src/retry.rs) ----
    cooldown_fibo_last,
    cooldown,
    attempt,
    longest_cooldown,
    retry_pc,           \* position of retry_until_success
    first_ok,           \* the attempt at which the wrapped operation succeeds (0: never)
    attempts_made,      \* calls of retryable.retry() in the current call
    sleeps,             \* the durations slept in the current call
    retry_value,        \* what retry_until_success returned
    \* ---- LeaderboardCache and get_user_leaderboard (src/handlers/leaderboard.rs) ----
    lb_store,           \* the cache's LinkedHashMap: entries (key, Instant) in insertion order
    lb_value,           \* the vector stored under each key
    lb_db,              \* what the aggregate query yields for each key, unlimited
    lb_pc,              \* position of each leaderboard request
    lb_query,           \* key, start and limit of each request
    lb_fetched,         \* the top-N vector the request got from the database
    lb_response,        \* what each request returned
    lb_pages,           \* the slices a paginating client has received, concatenated
    lb_page_limit,      \* the page size L of the paginating client
    \* ---- the router, check_jwt_token and the writing handlers ----
    web_pc,             \* position of the request being served
    web_request,        \* route, user_token cookie and body of the request
    web_extension,      \* the AuthData the middleware inserted for the handler
    web_response,       \* the response to the request
    db_bio,             \* user.bio of each user
    db_influence,       \* the influenced_by edge of each user to the target
    db_user_beatmaps,   \* user.beatmaps of each user
    \* ---- osu_oauth2_redirect (src/handlers/auth.rs) ----
    oauth_pc,           \* position of the handler
    oauth_auth,         \* auth_response: access token and expires_in
    oauth_user,         \* osu_user.id
    oauth_response,     \* redirect_response, or the error to return
    oauth_returned,     \* what the client received
    oauth_joined,       \* the futures of try_join! that have completed
    db_users,           \* the users upserted
    db_authenticated,   \* the users whose authenticated flag is true
    \* ---- update_once (src/daily_update.rs) ----
    users_to_update,
    update_index,       \* the ids the loop has finished with
    update_pc,          \* position of the loop
    update_ticks,       \* completed interval.tick() calls
    update_fetches,     \* the get_user_osu calls made, with their outcome
    update_upserts,     \* the upsert_user calls made, with their outcome
    \* ---- calls of ActivityTracker::spam_prevention ----
    spam_calls,         \* the ring read, the activity and the decision of each call
    \* ---- the influenced_by edges of one user (src/database) ----
    db_edges,           \* the outgoing edges, in the order they were related
    influences_returned,\* what the last get_influences returned
    \* ---- beatmap enrichment in the influence handlers ----
    influences,         \* the beatmaps of each Influence the database returned
    enrich_pc,          \* position of the handler
    enrich_response,    \* the response body, or the error
    \* ---- the live query of the streaming task and its reconnects ----
    stream_status,      \* "open", or why stream.next() will fail: "closed", "failed"
    retry_attempt,
    stream_retry_cooldown,  \* retry_cooldown of start_loop, in seconds
    \* ---- the token task's sleeps (src/osu_api/credentials_grant.rs) ----
    token_expires_in,   \* expires_in of the `token` the sleep reads
    acquired_expires_in,\* expires_in of the token acquired last
    loop_sleeps         \* each sleep: its seconds and the expires_in acquired before it

trackerVars == <<activity_table, stream, upstream, activity_queue, queue_size,
                 task_pc, index, activity_chunk, activity_chunk_len,
                 new_activity, spam_result>>

subVars == <<sub_pc, initial_message, broadcast_receiver, ws_frames>>

tokenVars == <<token, start_sender, start_channel, end_receiver, end_channel,
               loop_pc, loop_token, caller_pc, caller_token, token_log>>

cacheVars == <<store, now, req_pc, req_ids, cache_result, misses_requested,
               req_result, cache_return>>

requestVars == <<concurrent_requests, permit, http_pc, http_chunk, http_body,
                 gets_issued, rm_pc, rm_keys, handlers, rm_result>>

retryVars == <<cooldown_fibo_last, cooldown, attempt, longest_cooldown,
               retry_pc, first_ok, attempts_made, sleeps, retry_value>>

lbVars == <<lb_store, lb_value, lb_db, lb_pc, lb_query, lb_fetched, lb_response,
            lb_pages, lb_page_limit>>

webVars == <<web_pc, web_request, web_extension, web_response, db_bio,
             db_influence, db_user_beatmaps>>

oauthVars == <<oauth_pc, oauth_auth, oauth_user, oauth_response, oauth_returned,
               oauth_joined, db_users, db_authenticated>>

dailyVars == <<users_to_update, update_index, update_pc, update_ticks,
               update_fetches, update_upserts>>

spamVars == <<spam_calls>>

edgeVars == <<db_edges, influences_returned>>

enrichVars == <<influences, enrich_pc, enrich_response>>

liveVars == <<stream_status, retry_attempt, stream_retry_cooldown>>

refreshVars == <<token_expires_in, acquired_expires_in, loop_sleeps>>

extVars == <<spamVars, edgeVars, enrichVars, liveVars, refreshVars>>

\* the state of the subsystems modelled before the ones of extVars
baseVars == <<trackerVars, subVars, tokenVars, cacheVars, requestVars, retryVars,
              lbVars, webVars, oauthVars, dailyVars>>

appVars == <<lbVars, webVars, oauthVars, dailyVars, extVars>>

vars == <<trackerVars, subVars, tokenVars, cacheVars, requestVars, retryVars,
          appVars>>

(***************************************************************************)
(* Sequence helpers.                                                       *)
(***************************************************************************)
Range(s) == { s[i] : i \in 1..Len(s) }

Reverse(s) == [ i \in 1..Len(s) |-> s[Len(s) + 1 - i] ]

Min(a, b) == IF a < b THEN a ELSE b

\* all sequences over S of length at most n
RECURSIVE SeqsUpTo(_, _)
SeqsUpTo(S, n) ==
    IF n = 0 THEN { <<>> }
    ELSE LET shorter == SeqsUpTo(S, n - 1)
         IN  shorter \cup { Append(s, x) : s \in { t \in shorter : Len(t) = n - 1 }, x \in S }

\* the table a sequence of events makes: created_at is the insertion order
TableOf(events) == [ i \in 1..Len(events) |-> Activity(events[i], i) ]

(***************************************************************************)
(* DatabaseClient::get_activities: ORDER BY created_at DESC LIMIT .. START *)
(***************************************************************************)
get_activities(table, limit, start) ==
    LET desc == Reverse(table)
    IN  SubSeq(desc, start + 1, Min(Len(desc), start + limit))

(***************************************************************************)
(* ActivityType::get_beatmap_id: the id of a beatmap that is still bare.   *)
(***************************************************************************)
BeatmapKinds == { "ADD_USER_BEATMAP", "REMOVE_USER_BEATMAP",
                  "ADD_INFLUENCE_BEATMAP", "REMOVE_INFLUENCE_BEATMAP" }

get_beatmap_id(a) ==
    IF a.kind \in BeatmapKinds /\ ~a.enriched THEN a.beatmap ELSE 0

swap_beatmap_enum(a) ==
    IF a.kind \in BeatmapKinds THEN [a EXCEPT !.enriched = TRUE] ELSE a

(***************************************************************************)
(* ActivityTracker::spam_prevention.  Each matcher is the closure given to *)
(* iter().any(..), scanned head to tail with its mutable counter.          *)
(***************************************************************************)
max_false_influence_beatmap == 2

\* the threshold of the influence-beatmap branch used for user beatmaps
max_false_user_beatmap_two == max_false_influence_beatmap

max_false_user_beatmap == 5

InfluenceKinds == { "ADD_INFLUENCE", "EDIT_INFLUENCE_DESC", "EDIT_INFLUENCE_TYPE" }

edit_bio_matched(q, new) ==
    \E i \in 1..Len(q) : new.user = q[i].user

RECURSIVE user_beatmap_matched(_, _, _, _)
user_beatmap_matched(q, i, new, current_false) ==
    IF i > Len(q) THEN FALSE
    ELSE IF new.user = q[i].user /\ q[i].kind = "ADD_USER_BEATMAP"
         THEN IF new.beatmap # q[i].beatmap /\ current_false < max_false_user_beatmap
              THEN user_beatmap_matched(q, i + 1, new, current_false + 1)
              ELSE TRUE
         ELSE user_beatmap_matched(q, i + 1, new, current_false)

add_influence_matched(q, new) ==
    \E i \in 1..Len(q) :
        /\ new.user = q[i].user
        /\ q[i].kind \in InfluenceKinds
        /\ new.influence = q[i].influence

\* the edit branch forgetting the ADD_INFLUENCE arm of its match
edit_influence_matched_edits_only(q, new) ==
    \E i \in 1..Len(q) :
        /\ new.user = q[i].user
        /\ q[i].kind \in { "EDIT_INFLUENCE_DESC", "EDIT_INFLUENCE_TYPE" }
        /\ new.influence = q[i].influence

edit_influence_matched(q, new) ==
    \E i \in 1..Len(q) :
        /\ new.user = q[i].user
        /\ q[i].kind \in InfluenceKinds
        /\ new.influence = q[i].influence

RECURSIVE influence_beatmap_matched(_, _, _, _)
influence_beatmap_matched(q, i, new, current_false) ==
    IF i > Len(q) THEN FALSE
    ELSE IF new.user = q[i].user /\ q[i].kind = "ADD_INFLUENCE_BEATMAP"
         THEN IF \/ new.influence # q[i].influence
                 \/ (new.beatmap # q[i].beatmap
                     /\ current_false < max_false_influence_beatmap)
              THEN influence_beatmap_matched(q, i + 1, new, current_false + 1)
              ELSE TRUE
         ELSE influence_beatmap_matched(q, i + 1, new, current_false)

\* TRUE: the activity may enter the ring; FALSE: it is dropped
\* the filter with a memory of the activity it was given last
spam_prevention_remembering(q, new) ==
    /\ new # new_activity
    /\ CASE new.kind = "EDIT_BIO" -> ~edit_bio_matched(q, new)
         [] new.kind = "ADD_USER_BEATMAP" -> ~user_beatmap_matched(q, 1, new, 0)
         [] new.kind = "ADD_INFLUENCE" -> ~add_influence_matched(q, new)
         [] new.kind \in { "EDIT_INFLUENCE_DESC", "EDIT_INFLUENCE_TYPE" } ->
               ~edit_influence_matched(q, new)
         [] new.kind = "ADD_INFLUENCE_BEATMAP" -> ~influence_beatmap_matched(q, 1, new, 0)
         [] OTHER -> FALSE

spam_prevention(q, new) ==
    CASE new.kind = "EDIT_BIO" -> ~edit_bio_matched(q, new)
      [] new.kind = "ADD_USER_BEATMAP" -> ~user_beatmap_matched(q, 1, new, 0)
      [] new.kind = "ADD_INFLUENCE" -> ~add_influence_matched(q, new)
      [] new.kind \in { "EDIT_INFLUENCE_DESC", "EDIT_INFLUENCE_TYPE" } ->
            ~edit_influence_matched(q, new)
      [] new.kind = "ADD_INFLUENCE_BEATMAP" -> ~influence_beatmap_matched(q, 1, new, 0)
      [] OTHER -> FALSE

(***************************************************************************)
(* ActivityTracker::add_new_activity_to_queue: push_back, then pop_front   *)
(* when the length exceeds queue_size, under one lock.                     *)
(***************************************************************************)
\* the length test off by one
add_new_activity_to_queue_late_pop(q, a, size) ==
    LET pushed == Append(q, a)
    IN  IF Len(pushed) > size + 1 THEN Tail(pushed) ELSE pushed

add_new_activity_to_queue(q, a, size) ==
    LET pushed == Append(q, a)
    IN  IF Len(pushed) > size THEN Tail(pushed) ELSE pushed

(***************************************************************************)
(* ActivityTracker::set_initial_activities, one step per await / record.   *)
(***************************************************************************)
step_size == queue_size * 2

\* db.get_activities(step_size, index).await
InitialFetch ==
    /\ task_pc = "get_activities"
    /\ LET page == get_activities(activity_table, step_size, index)
       IN  /\ activity_chunk' = page
           /\ activity_chunk_len' = Len(page)
           /\ task_pc' = IF page # <<>> THEN "spam_initial" ELSE "swap_beatmaps"
    /\ UNCHANGED <<activity_table, stream, upstream, activity_queue, queue_size,
                   index, new_activity, spam_result, subVars, tokenVars, cacheVars,
                   requestVars, retryVars, appVars>>

\* if self.spam_prevention(&activity)?
InitialSpam ==
    /\ task_pc = "spam_initial"
    /\ new_activity' = Head(activity_chunk)
    /\ spam_result' = spam_prevention(activity_queue, Head(activity_chunk))
    /\ task_pc' = "push_initial"
    /\ UNCHANGED <<activity_table, stream, upstream, activity_queue, queue_size,
                   index, activity_chunk, activity_chunk_len, subVars, tokenVars, cacheVars,
                   requestVars, retryVars, appVars>>

\* push_back without the break 'outer at capacity
InitialPush_without_capacity_break ==
    /\ task_pc = "push_initial"
    /\ LET pushed == IF spam_result THEN Append(activity_queue, new_activity)
                     ELSE activity_queue
           rest == Tail(activity_chunk)
       IN  /\ activity_queue' = pushed
           /\ activity_chunk' = rest
           /\ IF rest # <<>>
              THEN task_pc' = "spam_initial" /\ index' = index
              ELSE IF activity_chunk_len < step_size
              THEN task_pc' = "swap_beatmaps" /\ index' = index
              ELSE task_pc' = "get_activities" /\ index' = index + step_size
    /\ UNCHANGED <<activity_table, stream, upstream, queue_size,
                   activity_chunk_len, new_activity, spam_result, subVars, tokenVars, cacheVars,
                   requestVars, retryVars, appVars>>

\* push_back when accepted; break 'outer at capacity; next record or next page
InitialPush ==
    /\ task_pc = "push_initial"
    /\ LET pushed == IF spam_result THEN Append(activity_queue, new_activity)
                     ELSE activity_queue
           rest == Tail(activity_chunk)
       IN  /\ activity_queue' = pushed
           /\ activity_chunk' = rest
           /\ IF Len(pushed) >= queue_size
              THEN task_pc' = "swap_beatmaps" /\ index' = index
              ELSE IF rest # <<>>
              THEN task_pc' = "spam_initial" /\ index' = index
              ELSE IF activity_chunk_len < step_size
              THEN task_pc' = "swap_beatmaps" /\ index' = index
              ELSE task_pc' = "get_activities" /\ index' = index + step_size
    /\ UNCHANGED <<activity_table, stream, upstream, queue_size,
                   activity_chunk_len, new_activity, spam_result, subVars, tokenVars, cacheVars,
                   requestVars, retryVars, appVars>>

(***************************************************************************)
(* ActivityTracker::swap_beatmaps: one bulk request for the bare ids of    *)
(* the ring; ids upstream does not return keep their bare form.  A failed  *)
(* request fails ActivityTracker::new.                                     *)
(***************************************************************************)
swap_beatmaps(q, resolved) ==
    [ i \in 1..Len(q) |->
        IF get_beatmap_id(q[i]) # 0 /\ get_beatmap_id(q[i]) \in resolved
        THEN swap_beatmap_enum(q[i]) ELSE q[i] ]

InitialSwap ==
    /\ task_pc = "swap_beatmaps"
    /\ \E ok \in BOOLEAN :
          IF ok
          THEN /\ activity_queue' = swap_beatmaps(activity_queue, upstream)
               /\ task_pc' = "next"
          ELSE /\ activity_queue' = activity_queue
               /\ task_pc' = "failed"
    /\ UNCHANGED <<activity_table, stream, upstream, queue_size, index,
                   activity_chunk, activity_chunk_len, new_activity, spam_result, subVars, tokenVars, cacheVars,
                   requestVars, retryVars, appVars>>

(***************************************************************************)
(* The streaming task of ActivityTracker::start_loop.                      *)
(***************************************************************************)
\* stream.next() and the spam filter, without the check of the action
StreamNext_any_action ==
    /\ task_pc = "next"
    /\ stream # <<>>
    /\ stream' = Tail(stream)
    /\ LET notification == Head(stream)
       IN  /\ new_activity' = notification.data
           /\ spam_result' = spam_prevention(activity_queue, notification.data)
           /\ task_pc' = IF ~spam_result' THEN "next"
                         ELSE IF get_beatmap_id(notification.data) # 0
                         THEN "get_beatmaps"
                         ELSE "add"
    /\ UNCHANGED <<activity_table, upstream, activity_queue, queue_size, index,
                   activity_chunk, activity_chunk_len, subVars, tokenVars, cacheVars,
                   requestVars, retryVars, appVars>>

\* stream.next(), the action check and the spam filter
StreamNext ==
    /\ task_pc = "next"
    /\ stream # <<>>
    /\ stream' = Tail(stream)
    /\ LET notification == Head(stream)
       IN  IF notification.action # "Create"
           THEN UNCHANGED <<new_activity, spam_result, task_pc>>
           ELSE /\ new_activity' = notification.data
                /\ spam_result' = spam_prevention(activity_queue, notification.data)
                /\ task_pc' = IF ~spam_result' THEN "next"
                              ELSE IF get_beatmap_id(notification.data) # 0
                              THEN "get_beatmaps"
                              ELSE "add"
    /\ UNCHANGED <<activity_table, upstream, activity_queue, queue_size, index,
                   activity_chunk, activity_chunk_len, subVars, tokenVars, cacheVars,
                   requestVars, retryVars, appVars>>

\* get_access_token and get_beatmaps_with_user(&[beatmap_id]).await
StreamEnrich ==
    /\ task_pc = "get_beatmaps"
    /\ \E ok \in BOOLEAN :
          IF ok /\ get_beatmap_id(new_activity) \in upstream
          THEN /\ new_activity' = swap_beatmap_enum(new_activity)
               /\ task_pc' = "add"
          ELSE /\ new_activity' = new_activity
               /\ task_pc' = "next"
    /\ UNCHANGED <<activity_table, stream, upstream, activity_queue, queue_size,
                   index, activity_chunk, activity_chunk_len, spam_result, subVars, tokenVars, cacheVars,
                   requestVars, retryVars, appVars>>

\* serde_json::to_string and add_new_activity_to_queue
StreamAdd ==
    /\ task_pc = "add"
    /\ activity_queue' = add_new_activity_to_queue(activity_queue, new_activity, queue_size)
    /\ task_pc' = "send"
    /\ UNCHANGED <<activity_table, stream, upstream, queue_size, index,
                   activity_chunk, activity_chunk_len, new_activity, spam_result, subVars, tokenVars, cacheVars,
                   requestVars, retryVars, appVars>>

\* serde_json::to_string: the JSON text of a value
to_string(value) == <<"json", value>>

\* broadcast::channel(50): a receiver that is 50 frames behind loses the oldest
broadcast_capacity == 50

\* broadcast_sender.send(activity_string): one copy per subscribed receiver
StreamSend ==
    /\ task_pc = "send"
    /\ task_pc' = "next"
    /\ IF sub_pc \in { "subscribed", "open" }
       THEN IF Len(broadcast_receiver) >= broadcast_capacity
            THEN /\ broadcast_receiver' = Append(Tail(broadcast_receiver), to_string(new_activity))
                 /\ sub_pc' = "lagged"
            ELSE /\ broadcast_receiver' = Append(broadcast_receiver, to_string(new_activity))
                 /\ sub_pc' = sub_pc
       ELSE UNCHANGED <<broadcast_receiver, sub_pc>>
    /\ UNCHANGED <<activity_table, stream, upstream, activity_queue, queue_size,
                   index, activity_chunk, activity_chunk_len, new_activity,
                   spam_result, initial_message, ws_frames, tokenVars, cacheVars,
                   requestVars, retryVars, appVars>>

(***************************************************************************)
(* A WebSocket connection: ActivityTracker::new_connection serializes the  *)
(* ring (taking the lock) and then subscribes; handle_socket sends the     *)
(* snapshot and forwards every frame it receives.  The server accepts      *)
(* connections once ActivityTracker::new has returned.                     *)
(***************************************************************************)
NewConnectionSerialize ==
    /\ sub_pc = "closed"
    /\ task_pc \in { "next", "get_beatmaps", "add", "send" }
    /\ initial_message' = to_string(activity_queue)
    /\ sub_pc' = "serialized"
    /\ UNCHANGED <<trackerVars, broadcast_receiver, ws_frames, tokenVars, cacheVars,
                   requestVars, retryVars, appVars>>

NewConnectionSubscribe ==
    /\ sub_pc = "serialized"
    /\ broadcast_receiver' = <<>>
    /\ sub_pc' = "subscribed"
    /\ UNCHANGED <<trackerVars, initial_message, ws_frames, tokenVars, cacheVars,
                   requestVars, retryVars, appVars>>

SocketSendInitial ==
    /\ sub_pc = "subscribed"
    /\ ws_frames' = <<initial_message>>
    /\ sub_pc' = "open"
    /\ UNCHANGED <<trackerVars, initial_message, broadcast_receiver, tokenVars, cacheVars,
                   requestVars, retryVars, appVars>>

SocketForward ==
    /\ sub_pc = "open"
    /\ broadcast_receiver # <<>>
    /\ ws_frames' = Append(ws_frames, Head(broadcast_receiver))
    /\ broadcast_receiver' = Tail(broadcast_receiver)
    /\ UNCHANGED <<trackerVars, sub_pc, initial_message, tokenVars, cacheVars,
                   requestVars, retryVars, appVars>>

(***************************************************************************)
(* The database: a write creates an activity row; the live query notifies  *)
(* the streaming task once it is subscribed.                               *)
(***************************************************************************)
CreateActivity(e, limit) ==
    /\ task_pc \in { "next", "get_beatmaps", "add", "send" }
    /\ Len(activity_table) < limit
    /\ LET a == Activity(e, Len(activity_table) + 1)
       IN  /\ activity_table' = Append(activity_table, a)
           /\ stream' = Append(stream, [action |-> "Create", data |-> a])
    /\ UNCHANGED <<upstream, activity_queue, queue_size, task_pc, index,
                   activity_chunk, activity_chunk_len, new_activity, spam_result, subVars, tokenVars, cacheVars,
                   requestVars, retryVars, appVars>>

\* a row of the activity table is changed after it was created: the live
\* query notifies the streaming task with the action Update
UpdateActivity(i) ==
    /\ task_pc \in { "next", "get_beatmaps", "add", "send" }
    /\ i \in 1..Len(activity_table)
    /\ activity_table[i] # NoActivity
    /\ Len(stream) < MaxNotifications
    /\ stream' = Append(stream, [action |-> "Update", data |-> activity_table[i]])
    /\ UNCHANGED <<activity_table, upstream, activity_queue, queue_size, task_pc,
                   index, activity_chunk, activity_chunk_len, new_activity,
                   spam_result, subVars, tokenVars, cacheVars, requestVars,
                   retryVars, appVars>>

\* a row of the activity table is deleted: the live query notifies the
\* streaming task with the action Delete; the id of the row is not used again
DeleteActivity(i) ==
    /\ task_pc \in { "next", "get_beatmaps", "add", "send" }
    /\ i \in 1..Len(activity_table)
    /\ activity_table[i] # NoActivity
    /\ Len(stream) < MaxNotifications
    /\ activity_table' = [activity_table EXCEPT ![i] = NoActivity]
    /\ stream' = Append(stream, [action |-> "Delete", data |-> activity_table[i]])
    /\ UNCHANGED <<upstream, activity_queue, queue_size, task_pc, index,
                   activity_chunk, activity_chunk_len, new_activity, spam_result,
                   subVars, tokenVars, cacheVars, requestVars, retryVars, appVars>>

(***************************************************************************)
(* CredentialsGrantClient (src/osu_api/credentials_grant.rs).              *)
(***************************************************************************)
Callers == 1..MaxCallers

\* ---- the background task spawned by start_loop ----
\* start_receiver.await
LoopAwaitStart ==
    /\ loop_pc = "await_start"
    /\ start_channel
    /\ start_channel' = FALSE
    /\ loop_pc' = "retry"
    /\ UNCHANGED <<token, start_sender, end_receiver, end_channel, loop_token,
                   caller_pc, caller_token, trackerVars, subVars, cacheVars,
                   token_log, requestVars, retryVars, appVars>>

\* retry_until_success around get_client_credentials_token: every attempt is
\* one request to the token endpoint; a failed attempt is retried, a
\* successful one yields the next token
LoopRetry ==
    /\ loop_pc \in { "retry", "refresh" }
    /\ \E ok \in BOOLEAN :
          IF ok
          THEN /\ loop_token' = loop_token + 1
               /\ token_log' = Append(token_log, "ok")
               /\ loop_pc' = IF loop_pc = "retry" THEN "update" ELSE "refresh_update"
          ELSE /\ Len(token_log) < MaxTokenRequests
               /\ token_log' = Append(token_log, "err")
               /\ UNCHANGED <<loop_token, loop_pc>>
    /\ UNCHANGED <<token, start_sender, start_channel, end_receiver, end_channel,
                   caller_pc, caller_token, trackerVars, subVars, cacheVars,
                   requestVars, retryVars, appVars>>

\* CredentialsGrantClient::update_token
update_token(new_token) == new_token

\* a first acquisition that signals the end without having written the token
LoopUpdate_no_write ==
    /\ loop_pc = "update"
    /\ loop_pc' = "end_send"
    /\ UNCHANGED <<token, start_sender, start_channel, end_receiver, end_channel,
                   loop_token, caller_pc, caller_token, token_log, trackerVars,
                   subVars, cacheVars, requestVars, retryVars, appVars>>

\* self.update_token(token.access_token) of the first acquisition
LoopUpdate ==
    /\ loop_pc = "update"
    /\ token' = update_token(loop_token)
    /\ loop_pc' = "end_send"
    /\ UNCHANGED <<start_sender, start_channel, end_receiver, end_channel,
                   loop_token, caller_pc, caller_token, trackerVars, subVars,
                   cacheVars,
                   token_log, requestVars, retryVars, appVars>>

\* end_sender.send(())
LoopEndSend ==
    /\ loop_pc = "end_send"
    /\ end_channel' = TRUE
    /\ loop_pc' = "sleep"
    /\ UNCHANGED <<token, start_sender, start_channel, end_receiver, loop_token,
                   caller_pc, caller_token, trackerVars, subVars, cacheVars,
                   token_log, requestVars, retryVars, appVars>>

\* sleep(expires_in - buffer_time), then the next acquisition
LoopSleep ==
    /\ loop_pc = "sleep"
    /\ loop_token < MaxTokens
    /\ loop_pc' = "refresh"
    /\ UNCHANGED <<token, start_sender, start_channel, end_receiver, end_channel,
                   loop_token, caller_pc, caller_token, trackerVars, subVars,
                   cacheVars,
                   token_log, requestVars, retryVars, appVars>>

\* self.update_token(token.access_token) inside the loop
LoopRefreshUpdate ==
    /\ loop_pc = "refresh_update"
    /\ token' = update_token(loop_token)
    /\ loop_pc' = "sleep"
    /\ UNCHANGED <<start_sender, start_channel, end_receiver, end_channel,
                   loop_token, caller_pc, caller_token, trackerVars, subVars,
                   cacheVars,
                   token_log, requestVars, retryVars, appVars>>

\* ---- get_access_token, one step per lock / await ----
\* if let Some(token) = self.get_token_only()?
CallGetTokenOnly(c) ==
    /\ caller_pc[c] = "idle"
    /\ IF token # 0
       THEN /\ caller_token' = [caller_token EXCEPT ![c] = token]
            /\ caller_pc' = [caller_pc EXCEPT ![c] = "done"]
       ELSE /\ caller_token' = caller_token
            /\ caller_pc' = [caller_pc EXCEPT ![c] = "start_sender"]
    /\ UNCHANGED <<token, start_sender, start_channel, end_receiver, end_channel,
                   loop_pc, loop_token, trackerVars, subVars, cacheVars,
                   token_log, requestVars, retryVars, appVars>>

\* start_sender.lock().await.take().expect(..).send(()).expect(..)
CallSendStart(c) ==
    /\ caller_pc[c] = "start_sender"
    /\ IF start_sender
       THEN /\ start_sender' = FALSE
            /\ start_channel' = TRUE
            /\ caller_pc' = [caller_pc EXCEPT ![c] = "end_receiver"]
       ELSE /\ UNCHANGED <<start_sender, start_channel>>
            /\ caller_pc' = [caller_pc EXCEPT ![c] = "panicked"]
    /\ UNCHANGED <<token, end_receiver, end_channel, loop_pc, loop_token,
                   caller_token, trackerVars, subVars, cacheVars,
                   token_log, requestVars, retryVars, appVars>>

\* end_receiver.lock().await.take().expect(..)
CallTakeEnd(c) ==
    /\ caller_pc[c] = "end_receiver"
    /\ IF end_receiver
       THEN /\ end_receiver' = FALSE
            /\ caller_pc' = [caller_pc EXCEPT ![c] = "await_end"]
       ELSE /\ end_receiver' = end_receiver
            /\ caller_pc' = [caller_pc EXCEPT ![c] = "panicked"]
    /\ UNCHANGED <<token, start_sender, start_channel, end_channel, loop_pc,
                   loop_token, caller_token, trackerVars, subVars, cacheVars,
                   token_log, requestVars, retryVars, appVars>>

\* .await on the receiver, then the read of the token
CallAwaitEnd(c) ==
    /\ caller_pc[c] = "await_end"
    /\ end_channel
    /\ IF token # 0
       THEN /\ caller_token' = [caller_token EXCEPT ![c] = token]
            /\ caller_pc' = [caller_pc EXCEPT ![c] = "done"]
       ELSE /\ caller_token' = caller_token
            /\ caller_pc' = [caller_pc EXCEPT ![c] = "panicked"]
    /\ UNCHANGED <<token, start_sender, start_channel, end_receiver, end_channel,
                   loop_pc, loop_token, trackerVars, subVars, cacheVars,
                   token_log, requestVars, retryVars, appVars>>

\* the caller makes another call
CallAgain(c) ==
    /\ caller_pc[c] = "done"
    /\ caller_pc' = [caller_pc EXCEPT ![c] = "idle"]
    /\ caller_token' = [caller_token EXCEPT ![c] = 0]
    /\ UNCHANGED <<token, start_sender, start_channel, end_receiver, end_channel,
                   loop_pc, loop_token, trackerVars, subVars, cacheVars,
                   token_log, requestVars, retryVars, appVars>>

InitToken ==
    /\ token = 0
    /\ start_sender = TRUE
    /\ start_channel = FALSE
    /\ end_receiver = TRUE
    /\ end_channel = FALSE
    /\ loop_pc = "await_start"
    /\ loop_token = 0
    /\ caller_pc = [c \in Callers |-> "idle"]
    /\ caller_token = [c \in Callers |-> 0]
    /\ token_log = <<>>

(***************************************************************************)
(* CustomCache (src/custom_cache.rs) and CachedRequester::get_multiple_osu *)
(* (src/osu_api/cached_requester.rs).                                      *)
(***************************************************************************)
Requesters == 1..2

Ids == { 1, 2, 3 }

\* the ids slices the callers pass
IdLists == { <<1>>, <<1, 2>>, <<2, 1>>, <<3, 2, 2>> }

\* Result<HashMap<u32, T>, AppError>, the map given by its key set
Ok(map) == [ok |-> TRUE, map |-> map]
Err == [ok |-> FALSE, map |-> {}]
NoResult == Ok({})

\* what an operation returned: the keys it was called with, those a value
\* came back for, and the keys its sweep popped
Return(op, keys, hits, evicted) ==
    [op |-> op, keys |-> keys, hits |-> hits, evicted |-> evicted]
NoReturn == Return("none", {}, {}, {})

\* a sweep that looks at the head only once
discard_expired_once(st, t) ==
    IF st # <<>> /\ t - Head(st).at > expire_in THEN Tail(st) ELSE st

\* discard_expired: pop the head while it is older than expire_in
RECURSIVE discard_expired(_, _)
discard_expired(st, t) ==
    IF st # <<>> /\ t - Head(st).at > expire_in
    THEN discard_expired(Tail(st), t)
    ELSE st

StoreKeys(st) == { st[i].key : i \in 1..Len(st) }

\* CustomCache::get_multiple on a swept store
get_multiple(st, keys) ==
    [ hits |-> { k \in Range(keys) : k \in StoreKeys(st) },
      misses |-> SelectSeq(keys, LAMBDA k : k \notin StoreKeys(st)) ]

\* cache_set: LinkedHashMap::insert replaces the entry of an existing key and
\* puts the entry at the tail
\* an insert that refreshes the entry of an existing key where it stands
cache_set_in_place(st, k, t) ==
    IF k \in StoreKeys(st)
    THEN [i \in 1..Len(st) |-> IF st[i].key = k THEN [key |-> k, at |-> t] ELSE st[i]]
    ELSE Append(st, [key |-> k, at |-> t])

\* an insert that does not replace the entry of an existing key
cache_set_no_replace(st, k, t) ==
    Append(st, [key |-> k, at |-> t])

cache_set(st, k, t) ==
    Append(SelectSeq(st, LAMBDA e : e.key # k), [key |-> k, at |-> t])

\* a set_multiple that refreshes the entries of existing keys where they stand
RECURSIVE set_multiple_keeping_position(_, _, _)
set_multiple_keeping_position(st, keys, t) ==
    IF keys = <<>> THEN st
    ELSE set_multiple_keeping_position(cache_set_in_place(st, Head(keys), t), Tail(keys), t)

RECURSIVE set_multiple(_, _, _)
set_multiple(st, keys, t) ==
    IF keys = <<>> THEN st
    ELSE set_multiple(cache_set(st, Head(keys), t), Tail(keys), t)

\* what the upstream API returns for the requested ids: the objects of the
\* ids it knows, in request order
request_multiple(keys, resolved) ==
    SelectSeq(keys, LAMBDA k : k \in resolved)

\* cache.lock(); cache.get_multiple(ids)
RequestGetMultiple(r, ids) ==
    /\ req_pc[r] \in { "idle", "done" }
    /\ LET swept == discard_expired(store, now)
       IN  /\ store' = swept
           /\ cache_result' = [cache_result EXCEPT ![r] = get_multiple(swept, ids)]
    /\ req_ids' = [req_ids EXCEPT ![r] = ids]
    /\ req_result' = [req_result EXCEPT ![r] = NoResult]
    /\ req_pc' = [req_pc EXCEPT ![r] = "request_multiple"]
    /\ UNCHANGED <<now, misses_requested, trackerVars, subVars, tokenVars,
                   cache_return, requestVars, retryVars, appVars>>

\* a failed call that still inserts what the upstream returned
RequestMisses_inserting_on_error(r) ==
    /\ req_pc[r] = "request_multiple"
    /\ \E ok \in BOOLEAN :
          IF ok
          THEN /\ misses_requested' = [misses_requested EXCEPT ![r] =
                                          request_multiple(cache_result[r].misses, upstream)]
               /\ req_pc' = [req_pc EXCEPT ![r] = "set_multiple"]
               /\ req_result' = req_result
               /\ store' = store
          ELSE /\ misses_requested' = misses_requested
               /\ req_pc' = [req_pc EXCEPT ![r] = "done"]
               /\ req_result' = [req_result EXCEPT ![r] = Err]
               /\ store' = set_multiple(store,
                                        request_multiple(cache_result[r].misses, upstream), now)
    /\ UNCHANGED <<now, req_ids, cache_result, trackerVars, subVars, tokenVars,
                   cache_return, requestVars, retryVars, appVars>>

\* request_multiple(&misses, ..).await? and serde_json::from_value(..)?: a
\* failed chunk or a value that does not decode ends the call with the error
RequestMisses(r) ==
    /\ req_pc[r] = "request_multiple"
    /\ \E ok \in BOOLEAN :
          IF ok
          THEN /\ misses_requested' = [misses_requested EXCEPT ![r] =
                                          request_multiple(cache_result[r].misses, upstream)]
               /\ req_pc' = [req_pc EXCEPT ![r] = "set_multiple"]
               /\ req_result' = req_result
          ELSE /\ misses_requested' = misses_requested
               /\ req_pc' = [req_pc EXCEPT ![r] = "done"]
               /\ req_result' = [req_result EXCEPT ![r] = Err]
    /\ UNCHANGED <<store, now, req_ids, cache_result, trackerVars, subVars, tokenVars,
                   cache_return, requestVars, retryVars, appVars>>

\* cache.lock(); cache.set_multiple(add_to_cache); hits.extend(add_to_cache)
RequestSetMultiple(r) ==
    /\ req_pc[r] = "set_multiple"
    /\ store' = set_multiple(store, misses_requested[r], now)
    /\ req_result' = [req_result EXCEPT ![r] =
                         Ok(cache_result[r].hits \cup Range(misses_requested[r]))]
    /\ req_pc' = [req_pc EXCEPT ![r] = "done"]
    /\ UNCHANGED <<now, req_ids, cache_result, misses_requested, trackerVars,
                   subVars, tokenVars,
                   cache_return, requestVars, retryVars, appVars>>

\* ---- the Cached operations of CustomCache, called on the locked cache ----
\* cache_set(k, v): returns the value it replaced
CacheSet(k) ==
    /\ store' = cache_set(store, k, now)
    /\ cache_return' = Return("cache_set", { k }, { k } \cap StoreKeys(store), {})
    /\ UNCHANGED <<now, req_pc, req_ids, cache_result, misses_requested,
                   req_result,
                   trackerVars, subVars, tokenVars, requestVars, retryVars, appVars>>

\* set_multiple(keys) by a caller that needs nothing else: no sweep
CacheSetMultiple(keys) ==
    /\ store' = set_multiple(store, keys, now)
    /\ cache_return' = Return("set_multiple", Range(keys),
                              Range(keys) \cap StoreKeys(store), {})
    /\ UNCHANGED <<now, req_pc, req_ids, cache_result, misses_requested,
                   req_result,
                   trackerVars, subVars, tokenVars, requestVars, retryVars, appVars>>

\* cache_get(k): sweep, then look the key up
CacheGet(k) ==
    /\ LET swept == discard_expired(store, now)
       IN  /\ store' = swept
           /\ cache_return' = Return("cache_get", { k }, { k } \cap StoreKeys(swept),
                                     StoreKeys(store) \ StoreKeys(swept))
    /\ UNCHANGED <<now, req_pc, req_ids, cache_result, misses_requested,
                   req_result,
                   trackerVars, subVars, tokenVars, requestVars, retryVars, appVars>>

\* get_multiple(keys) by a caller that needs nothing else
CacheGetMultiple(keys) ==
    /\ LET swept == discard_expired(store, now)
       IN  /\ store' = swept
           /\ cache_return' = Return("get_multiple", Range(keys),
                                     get_multiple(swept, keys).hits,
                                     StoreKeys(store) \ StoreKeys(swept))
    /\ UNCHANGED <<now, req_pc, req_ids, cache_result, misses_requested,
                   req_result,
                   trackerVars, subVars, tokenVars, requestVars, retryVars, appVars>>

\* cache_get_or_set_with(k, f): sweep, then insert only when the key is absent
CacheGetOrSetWith(k) ==
    /\ LET swept == discard_expired(store, now)
       IN  /\ store' = IF k \in StoreKeys(swept) THEN swept
                       ELSE Append(swept, [key |-> k, at |-> now])
           /\ cache_return' = Return("cache_get_or_set_with", { k }, { k },
                                     StoreKeys(store) \ StoreKeys(swept))
    /\ UNCHANGED <<now, req_pc, req_ids, cache_result, misses_requested,
                   req_result,
                   trackerVars, subVars, tokenVars, requestVars, retryVars, appVars>>

\* cache_remove(k): no sweep; returns the value it removed
CacheRemove(k) ==
    /\ store' = SelectSeq(store, LAMBDA e : e.key # k)
    /\ cache_return' = Return("cache_remove", { k }, { k } \cap StoreKeys(store), {})
    /\ UNCHANGED <<now, req_pc, req_ids, cache_result, misses_requested,
                   req_result,
                   trackerVars, subVars, tokenVars, requestVars, retryVars, appVars>>

\* time passes
Tick ==
    /\ now < MaxTime
    /\ now' = now + 1
    /\ UNCHANGED <<store, req_pc, req_ids, cache_result, misses_requested,
                   req_result, trackerVars, subVars, tokenVars,
                   cache_return, requestVars, retryVars, appVars>>

InitCache ==
    /\ store = <<>>
    /\ now = 0
    /\ req_pc = [r \in Requesters |-> "idle"]
    /\ req_ids = [r \in Requesters |-> <<>>]
    /\ cache_result = [r \in Requesters |-> [hits |-> {}, misses |-> <<>>]]
    /\ misses_requested = [r \in Requesters |-> <<>>]
    /\ req_result = [r \in Requesters |-> NoResult]
    /\ cache_return = NoReturn

(***************************************************************************)
(* OsuApiRequestClient and Requester::request_multiple                     *)
(* (src/osu_api/request.rs).                                               *)
(***************************************************************************)
\* keys.chunks(50)
chunk_size == 50

\* slice::chunks without its last, shorter chunk
RECURSIVE chunks_exact(_, _)
chunks_exact(keys, n) ==
    IF Len(keys) < n THEN <<>>
    ELSE <<SubSeq(keys, 1, n)>> \o chunks_exact(SubSeq(keys, n + 1, Len(keys)), n)

\* slice::chunks: consecutive chunks of n elements, the last one shorter
RECURSIVE chunks(_, _)
chunks(keys, n) ==
    IF keys = <<>> THEN <<>>
    ELSE <<SubSeq(keys, 1, Min(n, Len(keys)))>>
            \o chunks(SubSeq(keys, n + 1, Len(keys)), n)

\* the keys slices the callers pass: around the chunk boundaries
KeyCounts == { n \in { 0, 1, chunk_size - 1, chunk_size, chunk_size + 1,
                       2 * chunk_size, MaxKeys } : n <= MaxKeys }

KeyLists == { [i \in 1..n |-> i] : n \in KeyCounts }

\* the handlers of one request_multiple call come first, then the requests
\* of other callers
Requests == 1..(Len(chunks([i \in 1..MaxKeys |-> i], chunk_size)) + MaxDirect)

DirectRequests == { t \in Requests : t > Len(chunks([i \in 1..MaxKeys |-> i], chunk_size)) }

\* a response body, by its JSON shape; inner is the array under the outer
\* object when there is one
Body(kind, inner) == [kind |-> kind, inner |-> inner]
NoBody == Body("none", <<>>)

BodyKinds == { "object_of_array", "not_json", "not_object", "empty_object",
               "not_array" }

\* Result<Vec<Value>, AppError> of a handler
HandlerOk(inner) == [ok |-> TRUE, value |-> inner]
HandlerErr == [ok |-> FALSE, value |-> <<>>]

\* deserialize_without_outer once get_request returned: `?` on the transport
\* error and on serde_json::from_slice, MissingLayerJson unless the body is an
\* object whose first value is an array
deserialize_without_outer(body) ==
    IF body.kind = "object_of_array" THEN HandlerOk(body.inner) ELSE HandlerErr

\* the semaphore has a permit left
available_permits == concurrent_requests - Cardinality({ t \in Requests : permit[t] })

\* requests sent whose response body has not been read
InFlight == { t \in Requests : http_pc[t] = "sent" }

\* tokio::spawn of one handler per chunk
RequestMultipleSpawn(keys) ==
    /\ rm_pc = "idle"
    /\ LET cs == chunks(keys, chunk_size)
       IN  /\ handlers' = [i \in 1..Len(cs) |-> i]
           /\ http_pc' = [t \in Requests |->
                             IF t <= Len(cs) THEN "acquire" ELSE http_pc[t]]
           /\ http_chunk' = [t \in Requests |->
                                IF t <= Len(cs) THEN cs[t] ELSE http_chunk[t]]
    /\ rm_keys' = keys
    /\ rm_pc' = "joining"
    /\ UNCHANGED <<concurrent_requests, permit, http_body, gets_issued, rm_result,
                   trackerVars, subVars, tokenVars, cacheVars, retryVars, appVars>>

\* another caller starts a single request (get_user_osu, post_request, ...)
DirectRequest(t, id) ==
    /\ t \in DirectRequests
    /\ http_pc[t] = "idle"
    /\ http_pc' = [http_pc EXCEPT ![t] = "acquire"]
    /\ http_chunk' = [http_chunk EXCEPT ![t] = <<id>>]
    /\ UNCHANGED <<concurrent_requests, permit, http_body, gets_issued, rm_pc,
                   rm_keys, handlers, rm_result,
                   trackerVars, subVars, tokenVars, cacheVars, retryVars, appVars>>

\* format!("Bearer {}", access_token).parse().unwrap() on a token that is no
\* header value: the task panics before it asks for a permit
GetRequestPanic(t) ==
    /\ http_pc[t] = "acquire"
    /\ http_pc' = [http_pc EXCEPT ![t] = "panicked"]
    /\ UNCHANGED <<concurrent_requests, permit, http_chunk, http_body, gets_issued,
                   rm_pc, rm_keys, handlers, rm_result,
                   trackerVars, subVars, tokenVars, cacheVars, retryVars, appVars>>

\* let _permit = self.semaphore.acquire().await?
GetRequestAcquire(t) ==
    /\ http_pc[t] = "acquire"
    /\ available_permits > 0
    /\ permit' = [permit EXCEPT ![t] = TRUE]
    /\ http_pc' = [http_pc EXCEPT ![t] = "send"]
    /\ UNCHANGED <<concurrent_requests, http_chunk, http_body, gets_issued,
                   rm_pc, rm_keys, handlers, rm_result,
                   trackerVars, subVars, tokenVars, cacheVars, retryVars, appVars>>

\* a send that gives its permit back as soon as the request is on the wire
GetRequestSend_drop_permit(t) ==
    /\ http_pc[t] = "send"
    /\ gets_issued' = [gets_issued EXCEPT ![t] = @ + 1]
    /\ permit' = [permit EXCEPT ![t] = FALSE]
    /\ http_pc' = [http_pc EXCEPT ![t] = "sent"]
    /\ UNCHANGED <<concurrent_requests, http_chunk, http_body,
                   rm_pc, rm_keys, handlers, rm_result,
                   trackerVars, subVars, tokenVars, cacheVars, retryVars, appVars>>

\* self.client.get(url).headers(headers).send(): the request goes upstream
GetRequestSend(t) ==
    /\ http_pc[t] = "send"
    /\ gets_issued' = [gets_issued EXCEPT ![t] = @ + 1]
    /\ http_pc' = [http_pc EXCEPT ![t] = "sent"]
    /\ UNCHANGED <<concurrent_requests, permit, http_chunk, http_body,
                   rm_pc, rm_keys, handlers, rm_result,
                   trackerVars, subVars, tokenVars, cacheVars, retryVars, appVars>>

\* the array the upstream API answers for the ids of a url: the objects of
\* the ids it knows, in request order
response_inner(ids, resolved) == SelectSeq(ids, LAMBDA k : k \in resolved)

\* .send().await? and res.bytes().await?: the transport fails or the body is
\* read; get_request returns and _permit is dropped
GetRequestBytes(t) ==
    /\ http_pc[t] = "sent"
    /\ \E kind \in BodyKinds \cup { "transport_error" } :
          http_body' = [http_body EXCEPT ![t] =
                           Body(kind, IF kind = "object_of_array"
                                      THEN response_inner(http_chunk[t], upstream)
                                      ELSE <<>>)]
    /\ permit' = [permit EXCEPT ![t] = FALSE]
    /\ http_pc' = [http_pc EXCEPT ![t] = "done"]
    /\ UNCHANGED <<concurrent_requests, http_chunk, gets_issued,
                   rm_pc, rm_keys, handlers, rm_result,
                   trackerVars, subVars, tokenVars, cacheVars, retryVars, appVars>>

\* a fold that leaves the failed chunks out
RECURSIVE try_fold_skip_errors(_, _)
try_fold_skip_errors(results, acc) ==
    IF results = <<>> THEN HandlerOk(acc)
    ELSE try_fold_skip_errors(Tail(results),
                              IF Head(results).ok THEN acc \o Head(results).value
                              ELSE acc)

\* .into_iter().try_fold(vec![], |mut acc, result| { acc.extend(result?); Ok(acc) })
RECURSIVE try_fold(_, _)
try_fold(results, acc) ==
    IF results = <<>> THEN HandlerOk(acc)
    ELSE IF ~Head(results).ok THEN HandlerErr
    ELSE try_fold(Tail(results), acc \o Head(results).value)

\* try_join_all(handlers).await? and the fold: a JoinError of any handler ends
\* the wait with the error, otherwise every handler is awaited
RequestMultipleJoin ==
    /\ rm_pc = "joining"
    /\ LET joined == \A t \in Range(handlers) : http_pc[t] \in { "done", "panicked" }
           join_error == \E t \in Range(handlers) : http_pc[t] = "panicked"
       IN  /\ joined \/ join_error
           /\ rm_result' =
                 IF join_error THEN HandlerErr
                 ELSE try_fold([i \in 1..Len(handlers) |->
                                   deserialize_without_outer(http_body[handlers[i]])],
                               <<>>)
    /\ rm_pc' = "done"
    /\ UNCHANGED <<concurrent_requests, permit, http_pc, http_chunk, http_body,
                   gets_issued, rm_keys, handlers,
                   trackerVars, subVars, tokenVars, cacheVars, retryVars, appVars>>

\* OsuApiRequestClient::new(concurrent_requests)
InitRequest(permits) ==
    /\ concurrent_requests \in permits
    /\ permit = [t \in Requests |-> FALSE]
    /\ http_pc = [t \in Requests |-> "idle"]
    /\ http_chunk = [t \in Requests |-> <<>>]
    /\ http_body = [t \in Requests |-> NoBody]
    /\ gets_issued = [t \in Requests |-> 0]
    /\ rm_pc = "idle"
    /\ rm_keys = <<>>
    /\ handlers = <<>>
    /\ rm_result = HandlerOk(<<>>)

(***************************************************************************)
(* Retry (src/retry.rs).                                                   *)
(***************************************************************************)
\* the longest_cooldown the callers of retry_until_success pass
caller_longest_cooldown == 60

LongestCooldowns == (1..MaxLongestCooldown) \cup { caller_longest_cooldown }

\* the RetryOption::Retry arm: the duration slept and the fields afterwards
retry_cooldown(cd, last, longest) ==
    IF cd > longest
    THEN [sleep |-> longest, cooldown |-> cd, cooldown_fibo_last |-> last]
    ELSE [sleep |-> cd + last, cooldown |-> cd + last, cooldown_fibo_last |-> cd]

\* a caller invokes retry_until_success on the Retry object; the wrapped
\* operation will succeed at its n-th attempt, or never (n = 0)
RetryCall(n) ==
    /\ retry_pc \in { "idle", "returned" }
    /\ first_ok' = n
    /\ attempts_made' = 0
    /\ sleeps' = <<>>
    /\ retry_value' = 0
    /\ retry_pc' = "retry"
    /\ UNCHANGED <<cooldown_fibo_last, cooldown, attempt, longest_cooldown,
                   trackerVars, subVars, tokenVars, cacheVars, requestVars, appVars>>

\* a loop that gives up when the operation asks to continue
RetryAttempt_return_on_continue ==
    /\ retry_pc = "retry"
    /\ attempts_made < MaxAttempts
    /\ attempts_made' = attempts_made + 1
    /\ IF attempts_made + 1 = first_ok
       THEN /\ cooldown_fibo_last' = 0
            /\ cooldown' = 1
            /\ attempt' = 1
            /\ retry_value' = attempts_made + 1
            /\ retry_pc' = "returned"
            /\ UNCHANGED sleeps
       ELSE \E retry_option \in { "Continue", "Retry" } :
               IF retry_option = "Continue"
               THEN /\ retry_pc' = "returned"
                    /\ UNCHANGED <<cooldown_fibo_last, cooldown, attempt, sleeps,
                                   retry_value>>
               ELSE LET next == retry_cooldown(cooldown, cooldown_fibo_last,
                                               longest_cooldown)
                    IN  /\ cooldown' = next.cooldown
                        /\ cooldown_fibo_last' = next.cooldown_fibo_last
                        /\ sleeps' = Append(sleeps, next.sleep)
                        /\ retry_pc' = "sleep"
                        /\ UNCHANGED <<attempt, retry_value>>
    /\ UNCHANGED <<longest_cooldown, first_ok,
                   trackerVars, subVars, tokenVars, cacheVars, requestVars, appVars>>

\* one turn of the loop: self.retryable.retry().await and the match on it.
\* The value of the n-th attempt is n.
RetryAttempt ==
    /\ retry_pc = "retry"
    /\ attempts_made < MaxAttempts
    /\ attempts_made' = attempts_made + 1
    /\ IF attempts_made + 1 = first_ok
       THEN /\ cooldown_fibo_last' = 0
            /\ cooldown' = 1
            /\ attempt' = 1
            /\ retry_value' = attempts_made + 1
            /\ retry_pc' = "returned"
            /\ UNCHANGED sleeps
       ELSE \E retry_option \in { "Continue", "Retry" } :
               IF retry_option = "Continue"
               THEN UNCHANGED <<cooldown_fibo_last, cooldown, attempt, sleeps,
                                retry_value, retry_pc>>
               ELSE LET next == retry_cooldown(cooldown, cooldown_fibo_last,
                                               longest_cooldown)
                    IN  /\ cooldown' = next.cooldown
                        /\ cooldown_fibo_last' = next.cooldown_fibo_last
                        /\ sleeps' = Append(sleeps, next.sleep)
                        /\ retry_pc' = "sleep"
                        /\ UNCHANGED <<attempt, retry_value>>
    /\ UNCHANGED <<longest_cooldown, first_ok,
                   trackerVars, subVars, tokenVars, cacheVars, requestVars, appVars>>

\* tokio::time::sleep(Duration::from_secs(cooldown.into())).await is over
RetryWake ==
    /\ retry_pc = "sleep"
    /\ retry_pc' = "retry"
    /\ UNCHANGED <<cooldown_fibo_last, cooldown, attempt, longest_cooldown,
                   first_ok, attempts_made, sleeps, retry_value,
                   trackerVars, subVars, tokenVars, cacheVars, requestVars, appVars>>

\* Retry::new(longest_cooldown, retryable)
InitRetry(cooldowns) ==
    /\ cooldown_fibo_last = 0
    /\ cooldown = 1
    /\ attempt = 1
    /\ longest_cooldown \in cooldowns
    /\ retry_pc = "idle"
    /\ first_ok = 0
    /\ attempts_made = 0
    /\ sleeps = <<>>
    /\ retry_value = 0

(***************************************************************************)
(* LeaderboardCache and get_user_leaderboard (src/handlers/leaderboard.rs) *)
(* over DatabaseClient::user_leaderboard (src/database/leaderboard.rs).    *)
(* The cache is a CustomCache, so it shares discard_expired and cache_set  *)
(* with the requester caches; its TTL is expire_in ticks of the clock now. *)
(***************************************************************************)
LbClients == { 1, 2 }

\* the (ranked, country) pairs the requests name
LbKeys == { 1, 2 }

\* the N of the user leaderboard
leaderboard_cache_limit == 500

\* a leaderboard of n rows for key k, highest count first
LbRows(k, n) == [i \in 1..n |-> k * 1000 + i]

\* a page that takes before it skips
slice_take_then_skip(v, start, limit) ==
    SubSeq(v, start + 1, Min(Len(v), limit))

\* iter().skip(start).take(limit).cloned().collect()
slice(v, start, limit) ==
    SubSeq(v, start + 1, Min(Len(v), start + limit))

\* the aggregate query: ORDER count DESC LIMIT $limit START $start
user_leaderboard(k, limit, start) == slice(lb_db[k], start, limit)

LbQuery(k, start, limit) == [key |-> k, start |-> start, limit |-> limit]

\* what a request returned: the JSON body, the database queries it made and,
\* when it stored a vector, the Instant cache_set stamped it with
LbOk(body, queries, at) ==
    [ok |-> TRUE, body |-> body, queries |-> queries, stored_at |-> at]
LbErr == [ok |-> FALSE, body |-> <<>>, queries |-> 1, stored_at |-> 0]
NoLbResponse == [ok |-> FALSE, body |-> <<>>, queries |-> 0, stored_at |-> 0]

\* the vectors left after a sweep
lb_swept(swept) ==
    [k \in LbKeys |-> IF k \in StoreKeys(swept) THEN lb_value[k] ELSE <<>>]

\* a cached_query whose hit serves the vector the request fetched earlier
GetLeaderboardQuery_serve_own_fetch(c, k, start, limit) ==
    /\ lb_pc[c] = "idle"
    /\ LET swept == discard_expired(lb_store, now)
       IN  /\ lb_store' = swept
           /\ lb_value' = lb_swept(swept)
           /\ lb_query' = [lb_query EXCEPT ![c] = LbQuery(k, start, limit)]
           /\ IF k \in StoreKeys(swept)
              THEN /\ lb_response' = [lb_response EXCEPT ![c] =
                                         LbOk(slice(lb_fetched[c], start, limit), 0, 0)]
                   /\ UNCHANGED lb_pc
              ELSE /\ lb_pc' = [lb_pc EXCEPT ![c] = "db"]
                   /\ UNCHANGED lb_response
    /\ UNCHANGED <<lb_db, lb_fetched, lb_pages, lb_page_limit>>
    /\ UNCHANGED <<webVars, oauthVars, dailyVars, extVars>>
    /\ UNCHANGED <<trackerVars, subVars, tokenVars, cacheVars, requestVars, retryVars>>

\* get_user_leaderboard up to the end of cached_query: cache_get sweeps the
\* store under the mutex; a hit returns the slice of the stored vector
GetLeaderboardQuery(c, k, start, limit) ==
    /\ lb_pc[c] = "idle"
    /\ LET swept == discard_expired(lb_store, now)
       IN  /\ lb_store' = swept
           /\ lb_value' = lb_swept(swept)
           /\ lb_query' = [lb_query EXCEPT ![c] = LbQuery(k, start, limit)]
           /\ IF k \in StoreKeys(swept)
              THEN /\ lb_response' = [lb_response EXCEPT ![c] =
                                         LbOk(slice(lb_value[k], start, limit), 0, 0)]
                   /\ UNCHANGED lb_pc
              ELSE /\ lb_pc' = [lb_pc EXCEPT ![c] = "db"]
                   /\ UNCHANGED lb_response
    /\ UNCHANGED <<lb_db, lb_fetched, lb_pages, lb_page_limit>>
    /\ UNCHANGED <<webVars, oauthVars, dailyVars, extVars>>
    /\ UNCHANGED <<trackerVars, subVars, tokenVars, cacheVars, requestVars, retryVars>>

\* a miss: the database answers user_leaderboard(country, ranked, 500, 0)
GetLeaderboardDb(c) ==
    /\ lb_pc[c] = "db"
    /\ lb_fetched' = [lb_fetched EXCEPT ![c] =
                         user_leaderboard(lb_query[c].key, leaderboard_cache_limit, 0)]
    /\ lb_pc' = [lb_pc EXCEPT ![c] = "add"]
    /\ UNCHANGED <<lb_store, lb_value, lb_db, lb_query, lb_response, lb_pages,
                   lb_page_limit>>
    /\ UNCHANGED <<webVars, oauthVars, dailyVars, extVars>>
    /\ UNCHANGED <<trackerVars, subVars, tokenVars, cacheVars, requestVars, retryVars>>

\* a miss whose database query fails: `?` returns the error
GetLeaderboardDbErr(c) ==
    /\ lb_pc[c] = "db"
    /\ lb_response' = [lb_response EXCEPT ![c] = LbErr]
    /\ lb_pc' = [lb_pc EXCEPT ![c] = "idle"]
    /\ UNCHANGED <<lb_store, lb_value, lb_db, lb_query, lb_fetched, lb_pages,
                   lb_page_limit>>
    /\ UNCHANGED <<webVars, oauthVars, dailyVars, extVars>>
    /\ UNCHANGED <<trackerVars, subVars, tokenVars, cacheVars, requestVars, retryVars>>

\* the rest of a miss: slice the fetched vector, add_leaderboard, return
GetLeaderboardAdd(c) ==
    /\ lb_pc[c] = "add"
    /\ lb_store' = cache_set(lb_store, lb_query[c].key, now)
    /\ lb_value' = [lb_value EXCEPT ![lb_query[c].key] = lb_fetched[c]]
    /\ lb_response' = [lb_response EXCEPT ![c] =
                          LbOk(slice(lb_fetched[c], lb_query[c].start,
                                     lb_query[c].limit), 1, now)]
    /\ lb_pc' = [lb_pc EXCEPT ![c] = "idle"]
    /\ UNCHANGED <<lb_db, lb_query, lb_fetched, lb_pages, lb_page_limit>>
    /\ UNCHANGED <<webVars, oauthVars, dailyVars, extVars>>
    /\ UNCHANGED <<trackerVars, subVars, tokenVars, cacheVars, requestVars, retryVars>>

\* an influence is added: one more user enters the aggregate of key k
DbChange(k) ==
    /\ Len(lb_db[k]) < MaxLbRows
    /\ lb_db' = [lb_db EXCEPT ![k] = LbRows(k, Len(lb_db[k]) + 1)]
    /\ UNCHANGED <<lb_store, lb_value, lb_pc, lb_query, lb_fetched, lb_response,
                   lb_pages, lb_page_limit>>
    /\ UNCHANGED <<webVars, oauthVars, dailyVars, extVars>>
    /\ UNCHANGED <<trackerVars, subVars, tokenVars, cacheVars, requestVars, retryVars>>

\* a client that pages through key 1: the next page starts where the pages
\* it holds end
PageNext(c) ==
    /\ lb_pages.n * lb_page_limit < leaderboard_cache_limit
    /\ lb_response[c] = NoLbResponse \/ lb_query[c].start # lb_pages.n * lb_page_limit
    /\ GetLeaderboardQuery(c, 1, lb_pages.n * lb_page_limit, lb_page_limit)

\* the client appends the page it received
PageTake(c) ==
    /\ lb_pc[c] = "idle"
    /\ lb_response[c].ok
    /\ lb_response[c] # NoLbResponse
    /\ lb_query[c].start = lb_pages.n * lb_page_limit
    /\ lb_pages' = [n |-> lb_pages.n + 1, rows |-> lb_pages.rows \o lb_response[c].body]
    /\ UNCHANGED <<lb_store, lb_value, lb_db, lb_pc, lb_query, lb_fetched,
                   lb_response, lb_page_limit>>
    /\ UNCHANGED <<webVars, oauthVars, dailyVars, extVars>>
    /\ UNCHANGED <<trackerVars, subVars, tokenVars, cacheVars, requestVars, retryVars>>

InitLb(dbs, limits) ==
    /\ lb_store = <<>>
    /\ lb_value = [k \in LbKeys |-> <<>>]
    /\ lb_db \in dbs
    /\ lb_pc = [c \in LbClients |-> "idle"]
    /\ lb_query = [c \in LbClients |-> LbQuery(1, 0, 0)]
    /\ lb_fetched = [c \in LbClients |-> <<>>]
    /\ lb_response = [c \in LbClients |-> NoLbResponse]
    /\ lb_pages = [n |-> 0, rows |-> <<>>]
    /\ lb_page_limit \in limits

InitLbIdle == InitLb({ [k \in LbKeys |-> <<>>] }, { 1 })

(***************************************************************************)
(* The router (src/lib.rs routes), the session token (src/jwt.rs), the     *)
(* middleware check_jwt_token (src/handlers/auth.rs) and the handlers that *)
(* write text and beatmap ids (src/handlers/user.rs, influence.rs).        *)
(* A text is given by its length in bytes.                                 *)
(***************************************************************************)
WebUsers == { 1, 2 }

\* AuthData, the custom claims of a session token
AuthData(u) == [user_id |-> u, username |-> <<"username", u>>,
                osu_token |-> <<"osu_token", u>>]
NoAuthData == [user_id |-> 0, username |-> <<>>, osu_token |-> <<>>]

\* a signed token: the key that signed it, its expiry and its custom claims
Jwt(key, expires_at, custom) ==
    [key |-> key, expires_at |-> expires_at, custom |-> custom]
NoCookie == Jwt("none", 0, NoAuthData)

\* JwtUtil::create_jwt: claims with the custom data, valid for `duration`,
\* signed with the server's key
create_jwt(u, duration) == Jwt("server", now + duration, AuthData(u))

\* a verification that checks the signature only
verify_jwt_signature_only(jwt) ==
    IF jwt.key = "server"
    THEN [ok |-> TRUE, custom |-> jwt.custom]
    ELSE [ok |-> FALSE, custom |-> NoAuthData]

\* JwtUtil::verify_jwt: verify_token(token, None) checks signature and expiry
verify_jwt(jwt) ==
    IF jwt.key = "server" /\ now <= jwt.expires_at
    THEN [ok |-> TRUE, custom |-> jwt.custom]
    ELSE [ok |-> FALSE, custom |-> NoAuthData]

\* routes() in the order of its calls; route_layer wraps the routes added
\* before it
Router == << "POST /influence",
             "PATCH /influence/:influenced_to/map",
             "PATCH /influence/:influenced_to/description",
             "PATCH /users/bio",
             "PATCH /users/map",
             "route_layer check_jwt_token",
             "GET /activity",
             "ANY /ws",
             "GET /oauth/osu-redirect" >>

Position(route) == CHOOSE i \in 1..Len(Router) : Router[i] = route

\* a router whose layer wraps every route
layered_all(route) == route \in Range(Router)

layered(route) == Position(route) < Position("route_layer check_jwt_token")

\* AppError::into_response
Status(error) ==
    CASE error \in { "MissingTokenCookie", "JwtVerification" } -> 401
      [] error \in { "StringTooLong" } -> 422
      [] error \in { "MissingInfluence", "NonExistingMap" } -> 404
      [] OTHER -> 500

WebErr(error) == [status |-> Status(error), error |-> error, body |-> <<>>]
WebOk(status, body) == [status |-> status, error |-> "none", body |-> body]
NoWebResponse == [status |-> 0, error |-> "none", body |-> <<>>]

\* the JSON body and path of a request
WebBody(text, beatmaps, has_beatmaps) ==
    [text |-> text, beatmaps |-> beatmaps,
     has_beatmaps |-> has_beatmaps]

WebRequest(route, cookie, body) == [route |-> route, cookie |-> cookie, body |-> body]

NoInfluence == [exists |-> FALSE, description |-> 0, beatmaps |-> {}]
Influence(description, beatmaps) ==
    [exists |-> TRUE, description |-> description, beatmaps |-> beatmaps]

dbVars == <<db_bio, db_influence, db_user_beatmaps>>

Respond(response) ==
    /\ web_response' = response
    /\ web_pc' = "idle"

\* a request arrives: a route under the layer goes through check_jwt_token,
\* which rejects it or inserts the claims and runs the handler
Route(route, cookie, body) ==
    /\ web_pc = "idle"
    /\ web_request' = WebRequest(route, cookie, body)
    /\ IF layered(route)
       THEN IF cookie = NoCookie
            THEN /\ Respond(WebErr("MissingTokenCookie"))
                 /\ web_extension' = NoAuthData
            ELSE IF ~ verify_jwt(cookie).ok
            THEN /\ Respond(WebErr("JwtVerification"))
                 /\ web_extension' = NoAuthData
            ELSE /\ web_extension' = verify_jwt(cookie).custom
                 /\ web_pc' = "handler"
                 /\ web_response' = NoWebResponse
       ELSE /\ web_extension' = NoAuthData
            /\ web_pc' = "handler"
            /\ web_response' = NoWebResponse
    /\ UNCHANGED dbVars
    /\ UNCHANGED <<lbVars, oauthVars, dailyVars, extVars>>
    /\ UNCHANGED <<trackerVars, subVars, tokenVars, cacheVars, requestVars, retryVars>>

Handler(route) ==
    /\ web_pc = "handler"
    /\ web_request.route = route

\* update_user_bio
UpdateUserBio ==
    /\ Handler("PATCH /users/bio")
    /\ db_bio' = [db_bio EXCEPT ![web_extension.user_id] = web_request.body.text]
    /\ Respond(WebOk(200, <<>>))
    /\ UNCHANGED <<web_request, web_extension, db_influence, db_user_beatmaps>>
    /\ UNCHANGED <<lbVars, oauthVars, dailyVars, extVars>>
    /\ UNCHANGED <<trackerVars, subVars, tokenVars, cacheVars, requestVars, retryVars>>

\* get_multiple_osu / get_beatmaps_only: the ids upstream returns
get_beatmaps_only(ids) == { b \in Range(ids) : b \in upstream }

\* add_user_beatmap: the id must come back from upstream
AddUserBeatmap ==
    /\ Handler("PATCH /users/map")
    /\ LET beatmap_id == Head(web_request.body.beatmaps)
       IN  IF get_beatmaps_only(<<beatmap_id>>) = {}
           THEN /\ Respond(WebErr("NonExistingMap"))
                /\ UNCHANGED db_user_beatmaps
           ELSE /\ db_user_beatmaps' =
                      [db_user_beatmaps EXCEPT ![web_extension.user_id] = @ \cup { beatmap_id }]
                /\ Respond(WebOk(200, <<>>))
    /\ UNCHANGED <<web_request, web_extension, db_bio, db_influence>>
    /\ UNCHANGED <<lbVars, oauthVars, dailyVars, extVars>>
    /\ UNCHANGED <<trackerVars, subVars, tokenVars, cacheVars, requestVars, retryVars>>

\* a check that looks for requested ids that upstream did not return
check_multiple_maps_requested_not_returned(beatmaps) ==
    { m \in Range(beatmaps) : m \notin get_beatmaps_only(beatmaps) }

\* check_multiple_maps: the first returned id that is not among the requested
\* ones, if any
check_multiple_maps(beatmaps) ==
    { requested_map \in get_beatmaps_only(beatmaps) :
          requested_map \notin Range(beatmaps) }

\* the text bound of update_influence_description
MAX_DESC_LENGTH == 5000

\* add_influence: fetch the target user, check the beatmaps when the body has
\* some, then upsert the target and relate with the body's options
AddInfluence(user_ok) ==
    /\ Handler("POST /influence")
    /\ IF ~ user_ok
       THEN /\ Respond(WebErr("Reqwest"))
            /\ UNCHANGED db_influence
       ELSE IF web_request.body.has_beatmaps
               /\ check_multiple_maps(web_request.body.beatmaps) # {}
       THEN /\ Respond(WebErr("NonExistingMap"))
            /\ UNCHANGED db_influence
       ELSE /\ db_influence' =
                  [db_influence EXCEPT ![web_extension.user_id] =
                      Influence(web_request.body.text,
                                Range(web_request.body.beatmaps))]
            /\ Respond(WebOk(200, <<>>))
    /\ UNCHANGED <<web_request, web_extension, db_bio, db_user_beatmaps>>
    /\ UNCHANGED <<lbVars, oauthVars, dailyVars, extVars>>
    /\ UNCHANGED <<trackerVars, subVars, tokenVars, cacheVars, requestVars, retryVars>>

\* add_influence_beatmap: check the beatmaps, then beatmaps += ids on the edge
AddInfluenceBeatmap ==
    /\ Handler("PATCH /influence/:influenced_to/map")
    /\ IF check_multiple_maps(web_request.body.beatmaps) # {}
       THEN /\ Respond(WebErr("NonExistingMap"))
            /\ UNCHANGED db_influence
       ELSE IF ~ db_influence[web_extension.user_id].exists
       THEN /\ Respond(WebErr("MissingInfluence"))
            /\ UNCHANGED db_influence
       ELSE /\ db_influence' =
                  [db_influence EXCEPT ![web_extension.user_id].beatmaps =
                      @ \cup Range(web_request.body.beatmaps)]
            /\ Respond(WebOk(200, <<>>))
    /\ UNCHANGED <<web_request, web_extension, db_bio, db_user_beatmaps>>
    /\ UNCHANGED <<lbVars, oauthVars, dailyVars, extVars>>
    /\ UNCHANGED <<trackerVars, subVars, tokenVars, cacheVars, requestVars, retryVars>>

\* an update that stores the description without looking at its length
UpdateInfluenceDescription_unchecked ==
    /\ Handler("PATCH /influence/:influenced_to/description")
    /\ IF ~ db_influence[web_extension.user_id].exists
       THEN /\ Respond(WebErr("MissingInfluence"))
            /\ UNCHANGED db_influence
       ELSE /\ db_influence' =
                  [db_influence EXCEPT ![web_extension.user_id].description =
                      web_request.body.text]
            /\ Respond(WebOk(200, <<>>))
    /\ UNCHANGED <<web_request, web_extension, db_bio, db_user_beatmaps>>
    /\ UNCHANGED <<lbVars, oauthVars, dailyVars, extVars>>
    /\ UNCHANGED <<trackerVars, subVars, tokenVars, cacheVars, requestVars, retryVars>>

\* update_influence_description: the length check comes before the database
UpdateInfluenceDescription ==
    /\ Handler("PATCH /influence/:influenced_to/description")
    /\ IF web_request.body.text > MAX_DESC_LENGTH
       THEN /\ Respond(WebErr("StringTooLong"))
            /\ UNCHANGED db_influence
       ELSE IF ~ db_influence[web_extension.user_id].exists
       THEN /\ Respond(WebErr("MissingInfluence"))
            /\ UNCHANGED db_influence
       ELSE /\ db_influence' =
                  [db_influence EXCEPT ![web_extension.user_id].description =
                      web_request.body.text]
            /\ Respond(WebOk(200, <<>>))
    /\ UNCHANGED <<web_request, web_extension, db_bio, db_user_beatmaps>>
    /\ UNCHANGED <<lbVars, oauthVars, dailyVars, extVars>>
    /\ UNCHANGED <<trackerVars, subVars, tokenVars, cacheVars, requestVars, retryVars>>

\* get_latest_activities: get_current_queue as JSON
GetLatestActivities ==
    /\ Handler("GET /activity")
    /\ Respond(WebOk(200, to_string(activity_queue)))
    /\ UNCHANGED <<web_request, web_extension, dbVars>>
    /\ UNCHANGED <<lbVars, oauthVars, dailyVars, extVars>>
    /\ UNCHANGED <<trackerVars, subVars, tokenVars, cacheVars, requestVars, retryVars>>

\* ws_handler: new_connection serializes the ring, then the upgrade response
WsHandler ==
    /\ Handler("ANY /ws")
    /\ sub_pc = "closed"
    /\ initial_message' = to_string(activity_queue)
    /\ sub_pc' = "serialized"
    /\ Respond(WebOk(101, <<>>))
    /\ UNCHANGED <<web_request, web_extension, dbVars>>
    /\ UNCHANGED <<lbVars, oauthVars, dailyVars, extVars>>
    /\ UNCHANGED <<trackerVars, broadcast_receiver, ws_frames, tokenVars, cacheVars,
                   requestVars, retryVars>>

InitWeb ==
    /\ web_pc = "idle"
    /\ web_request = WebRequest("none", NoCookie, WebBody(0, <<>>, FALSE))
    /\ web_extension = NoAuthData
    /\ web_response = NoWebResponse
    /\ db_bio = [u \in WebUsers |-> 0]
    /\ db_influence = [u \in WebUsers |-> NoInfluence]
    /\ db_user_beatmaps = [u \in WebUsers |-> {}]

(***************************************************************************)
(* osu_oauth2_redirect (src/handlers/auth.rs).                             *)
(***************************************************************************)
\* the expires_in values upstream grants, in ticks
ExpiresIn == 1..MaxExpiresIn

\* Max-Age of both cookies
cookie_max_age == 86400

SetCookie(name, value, http_only) ==
    [name |-> name, value |-> value, http_only |-> http_only,
     max_age |-> cookie_max_age]

\* a redirect answered with 302 Found
Redirect_found(uri) ==
    [status |-> 302, error |-> "none", location |-> uri, set_cookie |-> <<>>]

\* axum's Redirect::to(uri).into_response(): 303 See Other with a Location
Redirect_to(uri) ==
    [status |-> 303, error |-> "none", location |-> uri, set_cookie |-> <<>>]

OauthErr(error) ==
    [status |-> Status(error), error |-> error, location |-> "", set_cookie |-> <<>>]
NoOauthResponse == [status |-> 0, error |-> "none", location |-> "", set_cookie |-> <<>>]

NoAuthResponse == [access_token |-> <<>>, expires_in |-> 0]

oauthFrame == <<lbVars, webVars, dailyVars, extVars>>

\* get_osu_auth_token(code): upstream exchanges the code of user u
OauthExchange(u, e, ok) ==
    /\ oauth_pc = "idle"
    /\ Len(activity_table) < MaxLogins
    /\ oauth_returned' = NoOauthResponse
    /\ IF ok
       THEN /\ oauth_auth' = [access_token |-> AuthData(u).osu_token, expires_in |-> e]
            /\ oauth_user' = u
            /\ oauth_pc' = "token_user"
       ELSE /\ oauth_pc' = "return"
            /\ UNCHANGED <<oauth_auth, oauth_user>>
    /\ oauth_response' = IF ok THEN NoOauthResponse ELSE OauthErr("Reqwest")
    /\ UNCHANGED <<oauth_joined, db_users, db_authenticated>>
    /\ UNCHANGED oauthFrame
    /\ UNCHANGED <<trackerVars, subVars, tokenVars, cacheVars, requestVars, retryVars>>

\* a handler that builds the redirect with one cookie
OauthTokenUser_one_cookie(ok) ==
    /\ oauth_pc = "token_user"
    /\ IF ok
       THEN /\ oauth_response' =
                  [Redirect_to("POST_LOGIN_REDIRECT_URI") EXCEPT !.set_cookie =
                      << SetCookie("user_token",
                                   create_jwt(oauth_user, oauth_auth.expires_in), TRUE) >>]
            /\ oauth_pc' = "join"
       ELSE /\ oauth_response' = OauthErr("Reqwest")
            /\ oauth_pc' = "return"
    /\ oauth_joined' = {}
    /\ UNCHANGED <<oauth_auth, oauth_user, oauth_returned, db_users, db_authenticated>>
    /\ UNCHANGED oauthFrame
    /\ UNCHANGED <<trackerVars, subVars, tokenVars, cacheVars, requestVars, retryVars>>

\* get_token_user(access_token), then create_jwt and the redirect response
\* with its two Set-Cookie headers, appended in this order
OauthTokenUser(ok) ==
    /\ oauth_pc = "token_user"
    /\ IF ok
       THEN /\ oauth_response' =
                  [Redirect_to("POST_LOGIN_REDIRECT_URI") EXCEPT !.set_cookie =
                      << SetCookie("user_token",
                                   create_jwt(oauth_user, oauth_auth.expires_in), TRUE),
                         SetCookie("logged_in", "true", FALSE) >>]
            /\ oauth_pc' = "join"
       ELSE /\ oauth_response' = OauthErr("Reqwest")
            /\ oauth_pc' = "return"
    /\ oauth_joined' = {}
    /\ UNCHANGED <<oauth_auth, oauth_user, oauth_returned, db_users, db_authenticated>>
    /\ UNCHANGED oauthFrame
    /\ UNCHANGED <<trackerVars, subVars, tokenVars, cacheVars, requestVars, retryVars>>

\* try_join!, first future: add_login_activity creates the LOGIN row, which
\* the live query reports once the tracker streams
OauthAddLoginActivity(ok) ==
    /\ oauth_pc = "join"
    /\ "add_login_activity" \notin oauth_joined
    /\ IF ok
       THEN /\ LET a == Activity(Event(oauth_user, "LOGIN", 0, 0),
                                 Len(activity_table) + 1)
               IN  /\ activity_table' = Append(activity_table, a)
                   /\ stream' = IF task_pc \in { "next", "get_beatmaps", "add", "send" }
                                THEN Append(stream, [action |-> "Create", data |-> a])
                                ELSE stream
            /\ oauth_joined' = oauth_joined \cup { "add_login_activity" }
            /\ UNCHANGED <<oauth_pc, oauth_response>>
       ELSE /\ oauth_response' = OauthErr("Surreal")
            /\ oauth_pc' = "return"
            /\ UNCHANGED <<activity_table, stream, oauth_joined>>
    /\ UNCHANGED <<oauth_auth, oauth_user, oauth_returned, db_users, db_authenticated>>
    /\ UNCHANGED oauthFrame
    /\ UNCHANGED <<upstream, activity_queue, queue_size, task_pc, index,
                   activity_chunk, activity_chunk_len, new_activity, spam_result,
                   subVars, tokenVars, cacheVars, requestVars, retryVars>>

\* try_join!, second future: upsert_user
OauthUpsertUser(ok) ==
    /\ oauth_pc = "join"
    /\ "upsert_user" \notin oauth_joined
    /\ IF ok
       THEN /\ db_users' = db_users \cup { oauth_user }
            /\ oauth_joined' = oauth_joined \cup { "upsert_user" }
            /\ UNCHANGED <<oauth_pc, oauth_response>>
       ELSE /\ oauth_response' = OauthErr("Surreal")
            /\ oauth_pc' = "return"
            /\ UNCHANGED <<db_users, oauth_joined>>
    /\ UNCHANGED <<oauth_auth, oauth_user, oauth_returned, db_authenticated>>
    /\ UNCHANGED oauthFrame
    /\ UNCHANGED <<trackerVars, subVars, tokenVars, cacheVars, requestVars, retryVars>>

\* DatabaseClient::set_authenticated(id): the user's authenticated flag
\* becomes true
set_authenticated(id) == db_authenticated \cup { id }

\* a handler that sets the flag while the join is still running
OauthSetAuthenticated_before_join(ok) ==
    /\ oauth_pc = "join"
    /\ IF ok
       THEN /\ db_authenticated' = set_authenticated(oauth_user)
            /\ UNCHANGED oauth_response
       ELSE /\ oauth_response' = OauthErr("Surreal")
            /\ UNCHANGED db_authenticated
    /\ oauth_pc' = "return"
    /\ UNCHANGED <<oauth_auth, oauth_user, oauth_returned, oauth_joined, db_users>>
    /\ UNCHANGED oauthFrame
    /\ UNCHANGED <<trackerVars, subVars, tokenVars, cacheVars, requestVars, retryVars>>

\* set_authenticated(id), awaited once both futures of try_join! are done
OauthSetAuthenticated(ok) ==
    /\ oauth_pc = "join"
    /\ oauth_joined = { "add_login_activity", "upsert_user" }
    /\ IF ok
       THEN /\ db_authenticated' = set_authenticated(oauth_user)
            /\ UNCHANGED oauth_response
       ELSE /\ oauth_response' = OauthErr("Surreal")
            /\ UNCHANGED db_authenticated
    /\ oauth_pc' = "return"
    /\ UNCHANGED <<oauth_auth, oauth_user, oauth_returned, oauth_joined, db_users>>
    /\ UNCHANGED oauthFrame
    /\ UNCHANGED <<trackerVars, subVars, tokenVars, cacheVars, requestVars, retryVars>>

\* the handler returns: Ok(redirect_response) or the error
OauthReturn ==
    /\ oauth_pc = "return"
    /\ oauth_returned' = oauth_response
    /\ oauth_pc' = "idle"
    /\ UNCHANGED <<oauth_auth, oauth_user, oauth_response, oauth_joined, db_users,
                   db_authenticated>>
    /\ UNCHANGED oauthFrame
    /\ UNCHANGED <<trackerVars, subVars, tokenVars, cacheVars, requestVars, retryVars>>

InitOauth ==
    /\ oauth_pc = "idle"
    /\ oauth_auth = NoAuthResponse
    /\ oauth_user = 0
    /\ oauth_response = NoOauthResponse
    /\ oauth_returned = NoOauthResponse
    /\ oauth_joined = {}
    /\ db_users = {}
    /\ db_authenticated = {}

(***************************************************************************)
(* update_once (src/daily_update.rs).                                      *)
(***************************************************************************)
\* the users_to_update lists
UpdateLists == { <<>>, <<1>>, <<2, 1>>, <<3, 1, 2>> }

Attempt(user_id, ok) == [user_id |-> user_id, ok |-> ok]

dailyFrame == <<lbVars, webVars, oauthVars, extVars>>

\* for user_id in users_to_update { interval.tick().await; ...
UpdateTick ==
    /\ update_pc = "tick"
    /\ update_index < Len(users_to_update)
    /\ update_ticks' = update_ticks + 1
    /\ update_pc' = "get_user_osu"
    /\ UNCHANGED <<users_to_update, update_index, update_fetches, update_upserts>>
    /\ UNCHANGED dailyFrame
    /\ UNCHANGED <<trackerVars, subVars, tokenVars, cacheVars, requestVars, retryVars>>

\* a loop that returns at the first failed fetch
UpdateGetUserOsu_return_on_error(ok) ==
    /\ update_pc = "get_user_osu"
    /\ update_fetches' =
          Append(update_fetches, Attempt(users_to_update[update_index + 1], ok))
    /\ IF ok
       THEN /\ update_pc' = "upsert_user"
            /\ UNCHANGED update_index
       ELSE /\ update_pc' = "returned"
            /\ UNCHANGED update_index
    /\ UNCHANGED <<users_to_update, update_ticks, update_upserts>>
    /\ UNCHANGED dailyFrame
    /\ UNCHANGED <<trackerVars, subVars, tokenVars, cacheVars, requestVars, retryVars>>

\* client.get_user_osu(user_id): on Err log and continue
UpdateGetUserOsu(ok) ==
    /\ update_pc = "get_user_osu"
    /\ update_fetches' =
          Append(update_fetches, Attempt(users_to_update[update_index + 1], ok))
    /\ IF ok
       THEN /\ update_pc' = "upsert_user"
            /\ UNCHANGED update_index
       ELSE /\ update_pc' = "tick"
            /\ update_index' = update_index + 1
    /\ UNCHANGED <<users_to_update, update_ticks, update_upserts>>
    /\ UNCHANGED dailyFrame
    /\ UNCHANGED <<trackerVars, subVars, tokenVars, cacheVars, requestVars, retryVars>>

\* database.upsert_user(user): on Err log and continue
UpdateUpsertUser(ok) ==
    /\ update_pc = "upsert_user"
    /\ update_upserts' =
          Append(update_upserts, Attempt(users_to_update[update_index + 1], ok))
    /\ update_pc' = "tick"
    /\ update_index' = update_index + 1
    /\ UNCHANGED <<users_to_update, update_ticks, update_fetches>>
    /\ UNCHANGED dailyFrame
    /\ UNCHANGED <<trackerVars, subVars, tokenVars, cacheVars, requestVars, retryVars>>

\* the list is exhausted: update_once returns
UpdateReturn ==
    /\ update_pc = "tick"
    /\ update_index = Len(users_to_update)
    /\ update_pc' = "returned"
    /\ UNCHANGED <<users_to_update, update_index, update_ticks, update_fetches,
                   update_upserts>>
    /\ UNCHANGED dailyFrame
    /\ UNCHANGED <<trackerVars, subVars, tokenVars, cacheVars, requestVars, retryVars>>

InitDaily(lists) ==
    /\ users_to_update \in lists
    /\ update_index = 0
    /\ update_pc = "tick"
    /\ update_ticks = 0
    /\ update_fetches = <<>>
    /\ update_upserts = <<>>

(***************************************************************************)
(* The influenced_by edges of one user: add_influence_relation,            *)
(* remove_influence_relation, set_influence_order and get_influences.      *)
(***************************************************************************)
Targets == 1..MaxTargets

\* a field that was never set; a field that was set holds <<value>>
NONE == <<>>

\* RELATE $user->influenced_by->$target SET description, influence_type,
\* beatmaps: the statement sets no order
AddInfluenceRelation(t) ==
    /\ t \in Targets
    /\ \A i \in 1..Len(db_edges) : db_edges[i].out # t
    /\ db_edges' = Append(db_edges, [out |-> t, order |-> NONE])
    /\ UNCHANGED <<baseVars, spamVars, enrichVars, liveVars, refreshVars, influences_returned>>

\* DELETE $own_user->influenced_by WHERE out = $target_user
RemoveInfluenceRelation(t) ==
    /\ \E i \in 1..Len(db_edges) : db_edges[i].out = t
    /\ db_edges' = SelectSeq(db_edges, LAMBDA e : e.out # t)
    /\ UNCHANGED <<baseVars, spamVars, enrichVars, liveVars, refreshVars, influences_returned>>

\* order.iter().enumerate().map(|(index, order)| (index as u32, *order))
enumerated_array(order) == [ i \in 1..Len(order) |-> <<i - 1, order[i]>> ]

\* one round of FOR $order IN $order_array: UPDATE $thing->influenced_by
\* SET order = $order.at(0) WHERE out = type::thing("user", $order.at(1))
update_order(edges, pair) ==
    [ i \in 1..Len(edges) |->
        IF edges[i].out = pair[2] THEN [edges[i] EXCEPT !.order = <<pair[1]>>]
        ELSE edges[i] ]

RECURSIVE for_order_in(_, _)
for_order_in(edges, order_array) ==
    IF order_array = <<>> THEN edges
    ELSE for_order_in(update_order(edges, Head(order_array)), Tail(order_array))

SetInfluenceOrder(order) ==
    /\ db_edges' = for_order_in(db_edges, enumerated_array(order))
    /\ db_edges' # db_edges
    /\ UNCHANGED <<baseVars, spamVars, enrichVars, liveVars, refreshVars, influences_returned>>

\* the sort key of ORDER BY order: NONE sorts before every number
order_key(e) == IF e.order = NONE THEN -1 ELSE e.order[1]

\* the arrangements ORDER BY order can yield: edges with equal keys come in
\* any order
ordered_by_order(edges) ==
    { s \in [1..Len(edges) -> Range(edges)] :
        /\ \A i, j \in 1..Len(edges) : i # j => s[i] # s[j]
        /\ \A i, j \in 1..Len(edges) : i < j => order_key(s[i]) <= order_key(s[j]) }

\* SELECT ... FROM $thing->influenced_by ORDER BY order START $start LIMIT $limit
\* into Vec<Influence>: an Influence names its user and has no order field
get_influences(edges, start, limit) ==
    { slice([ i \in 1..Len(s) |-> s[i].out ], start, limit) :
        s \in ordered_by_order(edges) }

GetInfluences(start, limit) ==
    /\ influences_returned' \in get_influences(db_edges, start, limit)
    /\ influences_returned' # influences_returned
    /\ UNCHANGED <<baseVars, spamVars, enrichVars, liveVars, refreshVars, db_edges>>

InitEdges ==
    /\ db_edges = <<>>
    /\ influences_returned = <<>>

(***************************************************************************)
(* Beatmap enrichment of influences: swap_beatmaps of src/handlers/mod.rs  *)
(* for the handlers that return one Influence, and the loop of             *)
(* get_user_influences for a page of them.                                 *)
(***************************************************************************)
BeatmapIds == 1..MaxEdgeBeatmaps

\* BeatmapEnum::Id(id) and BeatmapEnum::All(beatmap)
Id(b) == [id |-> b, enriched |-> FALSE]
All(b) == [id |-> b, enriched |-> TRUE]

\* the beatmaps field of an edge as the database keeps it: a list in which
\* no id occurs twice
EdgeBeatmaps ==
    { s \in SeqsUpTo(BeatmapIds, MaxEdgeBeatmaps) :
        \A i, j \in 1..Len(s) : i # j => s[i] # s[j] }

\* Itertools::unique: the first occurrence of each id, in order
RECURSIVE unique(_)
unique(ids) ==
    IF ids = <<>> THEN <<>>
    ELSE LET rest == unique(SubSeq(ids, 1, Len(ids) - 1))
             last == ids[Len(ids)]
         IN  IF last \in Range(rest) THEN rest ELSE Append(rest, last)

\* get_beatmaps_with_user: the keys of the map it returns
get_beatmaps_with_user(ids) == { b \in Range(ids) : b \in upstream }

\* filter_map with requested_beatmaps.remove(&id)
RECURSIVE filter_map_remove(_, _)
filter_map_remove(beatmaps, requested_beatmaps) ==
    IF beatmaps = <<>> THEN <<>>
    ELSE IF Head(beatmaps) \in requested_beatmaps
         THEN <<All(Head(beatmaps))>>
              \o filter_map_remove(Tail(beatmaps), requested_beatmaps \ { Head(beatmaps) })
         ELSE filter_map_remove(Tail(beatmaps), requested_beatmaps)

\* filter_map with beatmaps.get(&id)
RECURSIVE filter_map_get(_, _)
filter_map_get(beatmaps, requested_beatmaps) ==
    IF beatmaps = <<>> THEN <<>>
    ELSE IF Head(beatmaps) \in requested_beatmaps
         THEN <<All(Head(beatmaps))>> \o filter_map_get(Tail(beatmaps), requested_beatmaps)
         ELSE filter_map_get(Tail(beatmaps), requested_beatmaps)

\* the ids of every influence of the page, one after the other
RECURSIVE flat_map(_)
flat_map(page) ==
    IF page = <<>> THEN <<>> ELSE Head(page) \o flat_map(Tail(page))

\* the loop of get_user_influences taking each beatmap out of the map
\* shared by the page
RECURSIVE for_each_remove(_, _)
for_each_remove(page, requested_beatmaps) ==
    IF page = <<>> THEN <<>>
    ELSE <<filter_map_remove(Head(page), requested_beatmaps)>>
         \o for_each_remove(Tail(page), requested_beatmaps \ Range(Head(page)))

\* influences.iter_mut().for_each(..) of get_user_influences
for_each(page, requested_beatmaps) ==
    [ i \in 1..Len(page) |-> filter_map_get(page[i], requested_beatmaps) ]

EnrichOk(body) == [ok |-> TRUE, body |-> body]
EnrichErr == [ok |-> FALSE, body |-> <<>>]
NoEnrichResponse == [ok |-> FALSE, body |-> <<"none">>]

\* a handler returning one Influence: swap_beatmaps(&mut influence.beatmaps)
SwapBeatmaps(ok) ==
    /\ enrich_pc = "idle"
    /\ Len(influences) = 1
    /\ enrich_pc' = "done"
    /\ enrich_response' =
          IF ok
          THEN EnrichOk(<<filter_map_remove(influences[1],
                              get_beatmaps_with_user(unique(influences[1])))>>)
          ELSE EnrichErr
    /\ UNCHANGED <<baseVars, spamVars, edgeVars, liveVars, refreshVars, influences>>

\* get_user_influences: one request for the ids of the page, then the loop
GetUserInfluences(ok) ==
    /\ enrich_pc = "idle"
    /\ Len(influences) # 1
    /\ enrich_pc' = "done"
    /\ enrich_response' =
          IF ok
          THEN EnrichOk(for_each(influences,
                                 get_beatmaps_with_user(unique(flat_map(influences)))))
          ELSE EnrichErr
    /\ UNCHANGED <<baseVars, spamVars, edgeVars, liveVars, refreshVars, influences>>

InitEnrich(pages) ==
    /\ influences \in pages
    /\ enrich_pc = "idle"
    /\ enrich_response = NoEnrichResponse

(***************************************************************************)
(* The live query behind the streaming task: it can close or fail, and     *)
(* start_loop then sleeps and asks for a new one.  A live query reports    *)
(* the changes made while it is registered.                                *)
(***************************************************************************)
reconnect_cooldown_step == 10
reconnect_attempt_cap == 10

\* everything but the tracker and the live query
liveFrame == <<subVars, tokenVars, cacheVars, requestVars, retryVars, lbVars,
               webVars, oauthVars, dailyVars, spamVars, edgeVars, enrichVars,
               refreshVars>>

\* the connection is lost or the query is killed: what the stream holds is
\* still delivered, then stream.next() yields None ("closed") or an error
\* that is not a serialization error ("failed")
StreamFail(status) ==
    /\ task_pc \in { "next", "get_beatmaps", "add", "send" }
    /\ stream_status = "open"
    /\ retry_attempt <= MaxReconnects
    /\ status \in { "closed", "failed" }
    /\ stream_status' = status
    /\ UNCHANGED <<trackerVars, retry_attempt, stream_retry_cooldown, liveFrame>>

\* an activity record is deleted by hand: the stream yields
\* Err(Db(Serialization)) in place of a notification
SerializationError ==
    /\ task_pc \in { "next", "get_beatmaps", "add", "send" }
    /\ stream_status = "open"
    /\ Len(stream) < MaxNotifications
    /\ stream' = Append(stream, [action |-> "Serialization", data |-> NoActivity])
    /\ UNCHANGED <<activity_table, upstream, activity_queue, queue_size, task_pc,
                   index, activity_chunk, activity_chunk_len, new_activity,
                   spam_result, liveVars, liveFrame>>

\* an activity row is written while no live query is registered
CreateActivityUnobserved(e, limit) ==
    /\ task_pc \in { "next", "get_beatmaps", "add", "send", "reconnect" }
    /\ stream_status # "open"
    /\ Len(activity_table) < limit
    /\ activity_table' = Append(activity_table, Activity(e, Len(activity_table) + 1))
    /\ UNCHANGED <<stream, upstream, activity_queue, queue_size, task_pc,
                   index, activity_chunk, activity_chunk_len, new_activity,
                   spam_result, liveVars, liveFrame>>

\* the loop sleeping and reconnecting on a serialization error as well
StreamReconnectSleep_on_any_error ==
    /\ task_pc = "next"
    /\ \/ stream = <<>> /\ stream_status # "open" /\ stream' = stream
       \/ stream # <<>> /\ Head(stream).action = "Serialization" /\ stream' = Tail(stream)
    /\ stream_retry_cooldown' = IF retry_attempt < reconnect_attempt_cap
                         THEN stream_retry_cooldown + reconnect_cooldown_step
                         ELSE stream_retry_cooldown
    /\ retry_attempt' = retry_attempt + 1
    /\ task_pc' = "reconnect"
    /\ UNCHANGED <<activity_table, upstream, activity_queue, queue_size,
                   index, activity_chunk, activity_chunk_len, new_activity,
                   spam_result, stream_status, liveFrame>>

\* stream.next() yields None or an unhandled error: log, sleep for
\* retry_cooldown, lengthen the cooldown, count the attempt
StreamReconnectSleep ==
    /\ task_pc = "next"
    /\ stream = <<>>
    /\ stream_status # "open"
    /\ stream_retry_cooldown' = IF retry_attempt < reconnect_attempt_cap
                         THEN stream_retry_cooldown + reconnect_cooldown_step
                         ELSE stream_retry_cooldown
    /\ retry_attempt' = retry_attempt + 1
    /\ task_pc' = "reconnect"
    /\ UNCHANGED <<activity_table, stream, upstream, activity_queue, queue_size,
                   index, activity_chunk, activity_chunk_len, new_activity,
                   spam_result, stream_status, liveFrame>>

\* stream = db.start_activity_stream().await, or continue with the old one
StreamReconnect(ok) ==
    /\ task_pc = "reconnect"
    /\ ok \/ retry_attempt <= MaxReconnects
    /\ stream_status' = IF ok THEN "open" ELSE stream_status
    /\ task_pc' = "next"
    /\ UNCHANGED <<activity_table, stream, upstream, activity_queue, queue_size,
                   index, activity_chunk, activity_chunk_len, new_activity,
                   spam_result, retry_attempt, stream_retry_cooldown, liveFrame>>

InitLive ==
    /\ stream_status = "open"
    /\ retry_attempt = 1
    /\ stream_retry_cooldown = 5

(***************************************************************************)
(* The token task of CredentialsGrantClient::start_loop with the lifetime  *)
(* of each token: the first acquisition binds `token`, every turn of the   *)
(* loop sleeps for token.expires_in - buffer_time and binds a `token` of   *)
(* its own, which lives to the end of that turn.                           *)
(***************************************************************************)
buffer_time == 120

\* the expires_in values the token endpoint grants
GrantedExpiresIn == (buffer_time - 1)..(buffer_time + MaxExpiresOver)

refreshFrame == <<trackerVars, subVars, cacheVars, requestVars, retryVars, lbVars,
                  webVars, oauthVars, dailyVars, spamVars, edgeVars, enrichVars,
                  liveVars>>

\* retry_until_success: an attempt fails and is retried, or yields a token
\* with its expires_in
LoopAcquire(e, ok) ==
    /\ loop_pc \in { "retry", "refresh" }
    /\ IF ok
       THEN /\ loop_token' = loop_token + 1
            /\ token_log' = Append(token_log, "ok")
            /\ acquired_expires_in' = e
            /\ token_expires_in' = IF loop_pc = "retry" THEN e ELSE token_expires_in
            /\ loop_pc' = IF loop_pc = "retry" THEN "update" ELSE "refresh_update"
       ELSE /\ Len(token_log) < MaxTokenRequests
            /\ token_log' = Append(token_log, "err")
            /\ UNCHANGED <<loop_token, loop_pc, acquired_expires_in, token_expires_in>>
    /\ UNCHANGED <<token, start_sender, start_channel, end_receiver, end_channel,
                   caller_pc, caller_token, loop_sleeps, refreshFrame>>

\* sleep(Duration::from_secs(token.expires_in as u64 - buffer_time)): below
\* buffer_time the subtraction panics in a build with overflow checks and
\* wraps to a sleep that does not end in a build without them
LoopSleepFor ==
    /\ loop_pc = "sleep"
    /\ Len(loop_sleeps) < MaxSleeps
    /\ IF token_expires_in >= buffer_time
       THEN /\ loop_sleeps' = Append(loop_sleeps,
                                     [secs |-> token_expires_in - buffer_time,
                                      expires_in |-> acquired_expires_in])
            /\ loop_pc' = "refresh"
       ELSE /\ loop_sleeps' = loop_sleeps
            /\ loop_pc' \in { "panicked", "asleep" }
    /\ UNCHANGED <<token, start_sender, start_channel, end_receiver, end_channel,
                   loop_token, caller_pc, caller_token, token_log,
                   token_expires_in, acquired_expires_in, refreshFrame>>

InitRefresh ==
    /\ token_expires_in = 0
    /\ acquired_expires_in = 0
    /\ loop_sleeps = <<>>

(***************************************************************************)
(* ActivityTracker::spam_prevention as a call: it locks the ring, reads    *)
(* it and returns the decision.                                            *)
(***************************************************************************)
SpamPrevention(i) ==
    /\ i \in 1..Len(activity_table)
    /\ Len(spam_calls) < MaxSpamCalls
    /\ spam_calls' = Append(spam_calls,
                            [queue |-> activity_queue,
                             activity |-> activity_table[i],
                             result |-> spam_prevention(activity_queue, activity_table[i])])
    /\ UNCHANGED <<baseVars, edgeVars, enrichVars, liveVars, refreshVars>>

InitSpam ==
    /\ spam_calls = <<>>

InitExt ==
    /\ InitSpam
    /\ InitEdges
    /\ InitEnrich({ <<>> })
    /\ InitLive
    /\ InitRefresh

\* the subsystems a specification leaves idle
InitApp ==
    /\ InitLbIdle
    /\ InitWeb
    /\ InitOauth
    /\ InitDaily({ <<>> })
    /\ InitExt

(***************************************************************************)
(* Specifications.                                                         *)
(***************************************************************************)
InitTracker(tables, sizes, resolved) ==
    /\ activity_table \in tables
    /\ stream = <<>>
    /\ upstream \in resolved
    /\ activity_queue = <<>>
    /\ queue_size \in sizes
    /\ task_pc = "get_activities"
    /\ index = 0
    /\ activity_chunk = <<>>
    /\ activity_chunk_len = 0
    /\ new_activity = NoActivity
    /\ spam_result = FALSE

InitSub ==
    /\ sub_pc = "closed"
    /\ initial_message = to_string(<<>>)
    /\ broadcast_receiver = <<>>
    /\ ws_frames = <<>>

TrackerStep ==
    \/ InitialFetch
    \/ InitialSpam
    \/ InitialPush
    \/ InitialSwap
    \/ StreamNext
    \/ StreamEnrich
    \/ StreamAdd
    \/ StreamSend

\* ---- the activity tracker on the general scenario ----
MixedTables == { TableOf(s) : s \in SeqsUpTo(MixedEvents, MaxTable) }

Init ==
    /\ InitTracker(MixedTables, 1..MaxQueueSize, { {1} })
    /\ InitSub
    /\ InitToken
    /\ InitCache
    /\ InitRequest({ 1 })
    /\ InitRetry({ 1 })
    /\ InitApp

Next ==
    \/ TrackerStep
    \/ \E e \in MixedEvents : CreateActivity(e, MaxActivities)

Spec == Init /\ [][Next]_vars

\* ---- one WebSocket subscriber connecting while activities stream in ----
WsEvents ==
    { Event(1, "ADD_INFLUENCE", 7, 0),
      Event(1, "ADD_INFLUENCE", 8, 0),
      Event(2, "ADD_INFLUENCE", 7, 0),
      Event(2, "ADD_USER_BEATMAP", 0, 1) }

WsTables == { TableOf(s) : s \in SeqsUpTo(WsEvents, 1) }

InitWs ==
    /\ InitTracker(WsTables, 1..MaxQueueSize, { {1} })
    /\ InitSub
    /\ InitToken
    /\ InitCache
    /\ InitRequest({ 1 })
    /\ InitRetry({ 1 })
    /\ InitApp

NextWs ==
    \/ TrackerStep
    \/ \E e \in WsEvents : CreateActivity(e, MaxActivities)
    \/ NewConnectionSerialize
    \/ NewConnectionSubscribe
    \/ SocketSendInitial
    \/ SocketForward

SpecWs == InitWs /\ [][NextWs]_vars

\* ---- one user showcasing many beatmaps ----
UserBeatmapEvents ==
    { Event(u, "ADD_USER_BEATMAP", 0, b) : u \in { 1, 2 }, b \in 1..MaxBeatmaps }

\* user 1 added the beatmaps 1..k before the backend started
UserBeatmapTables ==
    { TableOf([ i \in 1..k |-> Event(1, "ADD_USER_BEATMAP", 0, i) ]) :
        k \in (MaxUserBeatmapRows - 2)..MaxUserBeatmapRows }

InitUserBeatmap ==
    /\ InitTracker(UserBeatmapTables, { MaxUserBeatmapRows + 1 }, { 1..MaxBeatmaps })
    /\ InitSub
    /\ InitToken
    /\ InitCache
    /\ InitRequest({ 1 })
    /\ InitRetry({ 1 })
    /\ InitApp

NextUserBeatmap ==
    \/ TrackerStep
    \/ \E e \in UserBeatmapEvents : CreateActivity(e, MaxUserBeatmapRows + 1)

SpecUserBeatmap == InitUserBeatmap /\ [][NextUserBeatmap]_vars

\* ---- one user adding beatmaps to two influences, each beatmap once ----
InfluenceBeatmapEvents ==
    { Event(1, "ADD_INFLUENCE_BEATMAP", 8, 1),
      Event(1, "ADD_INFLUENCE_BEATMAP", 8, 2),
      Event(1, "ADD_INFLUENCE_BEATMAP", 7, 3),
      Event(1, "ADD_INFLUENCE_BEATMAP", 7, 4) }

Distinct(events) == \A i, j \in 1..Len(events) : i # j => events[i] # events[j]

InfluenceBeatmapTables ==
    { TableOf(s) : s \in { t \in SeqsUpTo(InfluenceBeatmapEvents, MaxTable) : Distinct(t) } }

InitInfluenceBeatmap ==
    /\ InitTracker(InfluenceBeatmapTables, { MaxQueueSize + 1 }, { 1..4 })
    /\ InitSub
    /\ InitToken
    /\ InitCache
    /\ InitRequest({ 1 })
    /\ InitRetry({ 1 })
    /\ InitApp

NextInfluenceBeatmap ==
    \/ TrackerStep
    \/ \E e \in InfluenceBeatmapEvents :
          /\ \A i \in 1..Len(activity_table) :
                e.influence # activity_table[i].influence \/ e.beatmap # activity_table[i].beatmap
          /\ CreateActivity(e, MaxActivities + 1)

SpecInfluenceBeatmap == InitInfluenceBeatmap /\ [][NextInfluenceBeatmap]_vars

\* ---- the token manager with concurrent callers ----
InitTokenSpec ==
    /\ InitTracker({ <<>> }, { 1 }, { {} })
    /\ InitSub
    /\ InitToken
    /\ InitCache
    /\ InitRequest({ 1 })
    /\ InitRetry({ 1 })
    /\ InitApp

NextToken ==
    \/ LoopAwaitStart
    \/ LoopRetry
    \/ LoopUpdate
    \/ LoopEndSend
    \/ LoopSleep
    \/ LoopRefreshUpdate
    \/ \E c \in Callers :
          \/ CallGetTokenOnly(c)
          \/ CallSendStart(c)
          \/ CallTakeEnd(c)
          \/ CallAwaitEnd(c)
          \/ CallAgain(c)

SpecToken == InitTokenSpec /\ [][NextToken]_vars

\* ---- the cached requester with two concurrent callers ----
InitCacheSpec ==
    /\ InitTracker({ <<>> }, { 1 }, { {1, 2}, {1} })
    /\ InitSub
    /\ InitToken
    /\ InitCache
    /\ InitRequest({ 1 })
    /\ InitRetry({ 1 })
    /\ InitApp

NextCache ==
    \/ \E r \in Requesters, ids \in IdLists : RequestGetMultiple(r, ids)
    \/ \E r \in Requesters : RequestMisses(r)
    \/ \E r \in Requesters : RequestSetMultiple(r)
    \/ Tick

SpecCache == InitCacheSpec /\ [][NextCache]_vars

\* ---- the request client: one request_multiple call among other requests ----
InitRequestSpec ==
    /\ InitTracker({ <<>> }, { 1 }, { (1..MaxKeys) \ { 2 } })
    /\ InitSub
    /\ InitToken
    /\ InitCache
    /\ InitRequest(1..MaxPermits)
    /\ InitRetry({ 1 })
    /\ InitApp

NextRequest ==
    \/ \E keys \in KeyLists : RequestMultipleSpawn(keys)
    \/ \E t \in Requests : DirectRequest(t, 1)
    \/ \E t \in Requests :
          \/ GetRequestPanic(t)
          \/ GetRequestAcquire(t)
          \/ GetRequestSend(t)
          \/ GetRequestBytes(t)
    \/ RequestMultipleJoin

SpecRequest == InitRequestSpec /\ [][NextRequest]_vars

\* ---- the retry harness ----
InitRetrySpec ==
    /\ InitTracker({ <<>> }, { 1 }, { {} })
    /\ InitSub
    /\ InitToken
    /\ InitCache
    /\ InitRequest({ 1 })
    /\ InitRetry(LongestCooldowns)
    /\ InitApp

NextRetry ==
    \/ \E n \in 0..MaxAttempts : RetryCall(n)
    \/ RetryAttempt
    \/ RetryWake

SpecRetry == InitRetrySpec /\ [][NextRetry]_vars

\* the runtime keeps polling the task, and a sleep ends
SpecRetryFair == SpecRetry /\ WF_vars(RetryAttempt) /\ WF_vars(RetryWake)

\* ---- the TTL cache under its operations ----
InitTtlSpec ==
    /\ InitTracker({ <<>> }, { 1 }, { {} })
    /\ InitSub
    /\ InitToken
    /\ InitCache
    /\ InitRequest({ 1 })
    /\ InitRetry({ 1 })
    /\ InitApp

NextTtl ==
    \/ \E k \in Ids :
          \/ CacheSet(k)
          \/ CacheGet(k)
          \/ CacheGetOrSetWith(k)
          \/ CacheRemove(k)
    \/ \E keys \in IdLists : CacheGetMultiple(keys)
    \/ Tick

SpecTtl == InitTtlSpec /\ [][NextTtl]_vars

\* ---- a client paging through the user leaderboard, database unchanged ----
PageDbSizes == { 0, leaderboard_cache_limit - 1, leaderboard_cache_limit,
                 leaderboard_cache_limit + MaxPageOver }

PageLimits == { 1, 100, leaderboard_cache_limit - 1, leaderboard_cache_limit,
                leaderboard_cache_limit + MaxPageOver }

InitPagination ==
    /\ InitTracker({ <<>> }, { 1 }, { {} })
    /\ InitSub
    /\ InitToken
    /\ InitCache
    /\ InitRequest({ 1 })
    /\ InitRetry({ 1 })
    /\ InitLb({ [k \in LbKeys |-> LbRows(k, n)] : n \in PageDbSizes }, PageLimits)
    /\ InitWeb
    /\ InitOauth
    /\ InitDaily({ <<>> })
    /\ InitExt

NextPagination ==
    \/ PageNext(1)
    \/ PageTake(1)
    \/ \E c \in LbClients :
          \/ GetLeaderboardDb(c)
          \/ GetLeaderboardAdd(c)
    \/ Tick

SpecPagination == InitPagination /\ [][NextPagination]_vars

\* ---- two clients of the leaderboard while the database changes ----
\* client 1 reads two pages of key 1, client 2 the first page of either key
LbRequests(c) ==
    IF c = 1 THEN { LbQuery(1, start, 1) : start \in { 0, 1 } }
    ELSE { LbQuery(k, 0, 1) : k \in LbKeys }

InitLeaderboard ==
    /\ InitTracker({ <<>> }, { 1 }, { {} })
    /\ InitSub
    /\ InitToken
    /\ InitCache
    /\ InitRequest({ 1 })
    /\ InitRetry({ 1 })
    /\ InitLb({ [k \in LbKeys |-> LbRows(k, 1)] }, { 1 })
    /\ InitWeb
    /\ InitOauth
    /\ InitDaily({ <<>> })
    /\ InitExt

NextLeaderboard ==
    \/ \E c \in LbClients :
          \/ \E q \in LbRequests(c) : GetLeaderboardQuery(c, q.key, q.start, q.limit)
          \/ GetLeaderboardDb(c)
          \/ GetLeaderboardDbErr(c)
          \/ GetLeaderboardAdd(c)
    \/ DbChange(1)
    \/ Tick

SpecLeaderboard == InitLeaderboard /\ [][NextLeaderboard]_vars

\* ---- requests with and without a session cookie ----
\* the routes requested and the cookies sent: none, or a token signed by the
\* server or by another key, expiring early or late, for either user
AuthRoutes == { "PATCH /users/bio", "PATCH /users/map", "GET /activity", "ANY /ws" }

AuthCookies ==
    { NoCookie } \cup
    { Jwt("forged", MaxTime, AuthData(1)) } \cup
    { Jwt("server", expires_at, AuthData(u)) :
          expires_at \in { 1, MaxTime }, u \in WebUsers }

AuthBodies == { WebBody(1, <<1>>, FALSE) }

InitAuth ==
    /\ InitTracker({ TableOf(<<Event(1, "LOGIN", 0, 0)>>) }, { 1 }, { { 1 } })
    /\ InitSub
    /\ InitToken
    /\ InitCache
    /\ InitRequest({ 1 })
    /\ InitRetry({ 1 })
    /\ InitLbIdle
    /\ InitWeb
    /\ InitOauth
    /\ InitDaily({ <<>> })
    /\ InitExt

NextAuth ==
    \/ InitialFetch
    \/ InitialSpam
    \/ InitialPush
    \/ InitialSwap
    \/ \E route \in AuthRoutes, cookie \in AuthCookies, body \in AuthBodies :
          Route(route, cookie, body)
    \/ UpdateUserBio
    \/ AddUserBeatmap
    \/ GetLatestActivities
    \/ WsHandler
    \/ NewConnectionSubscribe
    \/ Tick

SpecAuth == InitAuth /\ [][NextAuth]_vars

\* ---- a logged-in user writing texts and beatmap ids ----
WriteRoutes == { "POST /influence", "PATCH /influence/:influenced_to/map",
                 "PATCH /influence/:influenced_to/description",
                 "PATCH /users/bio", "PATCH /users/map" }

WriteTexts == { 0, MAX_DESC_LENGTH, MAX_DESC_LENGTH + MaxTextOver }

\* upstream knows beatmap 1 only
WriteBeatmaps == { <<1>>, <<2>>, <<1, 2>> }

WriteBodies ==
    { WebBody(text, beatmaps, has_beatmaps) :
          text \in WriteTexts, beatmaps \in WriteBeatmaps,
          has_beatmaps \in BOOLEAN }

InitWrites ==
    /\ InitTracker({ <<>> }, { 1 }, { { 1 } })
    /\ InitSub
    /\ InitToken
    /\ InitCache
    /\ InitRequest({ 1 })
    /\ InitRetry({ 1 })
    /\ InitLbIdle
    /\ InitWeb
    /\ InitOauth
    /\ InitDaily({ <<>> })
    /\ InitExt

NextWrites ==
    \/ \E route \in WriteRoutes, body \in WriteBodies :
          Route(route, create_jwt(1, MaxTime), body)
    \/ UpdateUserBio
    \/ AddUserBeatmap
    \/ \E user_ok \in BOOLEAN : AddInfluence(user_ok)
    \/ AddInfluenceBeatmap
    \/ UpdateInfluenceDescription

SpecWrites == InitWrites /\ [][NextWrites]_vars

\* ---- the OAuth redirect ----
InitOauthSpec ==
    /\ InitTracker({ <<>> }, { 1 }, { {} })
    /\ InitSub
    /\ InitToken
    /\ InitCache
    /\ InitRequest({ 1 })
    /\ InitRetry({ 1 })
    /\ InitLbIdle
    /\ InitWeb
    /\ InitOauth
    /\ InitDaily({ <<>> })
    /\ InitExt

NextOauth ==
    \/ \E u \in WebUsers, e \in ExpiresIn, ok \in BOOLEAN : OauthExchange(u, e, ok)
    \/ \E ok \in BOOLEAN :
          \/ OauthTokenUser(ok)
          \/ OauthAddLoginActivity(ok)
          \/ OauthUpsertUser(ok)
          \/ OauthSetAuthenticated(ok)
    \/ OauthReturn
    \/ Tick

SpecOauth == InitOauthSpec /\ [][NextOauth]_vars

\* ---- one run of the daily update ----
InitDailySpec ==
    /\ InitTracker({ <<>> }, { 1 }, { {} })
    /\ InitSub
    /\ InitToken
    /\ InitCache
    /\ InitRequest({ 1 })
    /\ InitRetry({ 1 })
    /\ InitLbIdle
    /\ InitWeb
    /\ InitOauth
    /\ InitDaily(UpdateLists)
    /\ InitExt

NextDaily ==
    \/ UpdateTick
    \/ \E ok \in BOOLEAN :
          \/ UpdateGetUserOsu(ok)
          \/ UpdateUpsertUser(ok)
    \/ UpdateReturn

SpecDaily == InitDailySpec /\ [][NextDaily]_vars
\* ---- the streaming task fed with create, update and delete notifications ----
StreamEvents ==
    { Event(1, "EDIT_BIO", 0, 0),
      Event(1, "ADD_USER_BEATMAP", 0, 1),
      Event(2, "ADD_USER_BEATMAP", 0, 2) }

StreamTables == { TableOf(s) : s \in SeqsUpTo(StreamEvents, 1) }

InitStream ==
    /\ InitTracker(StreamTables, { MaxQueueSize }, { {1} })
    /\ InitSub
    /\ InitToken
    /\ InitCache
    /\ InitRequest({ 1 })
    /\ InitRetry({ 1 })
    /\ InitApp

NextStream ==
    \/ TrackerStep
    \/ \E e \in StreamEvents : CreateActivity(e, MaxActivities)
    \/ \E i \in 1..MaxActivities : UpdateActivity(i)
    \/ \E i \in 1..MaxActivities : DeleteActivity(i)
    \/ NewConnectionSerialize
    \/ NewConnectionSubscribe

SpecStream == InitStream /\ [][NextStream]_vars

\* ---- the spam filter called again on persisted activities ----
SpamEvents ==
    { Event(1, "EDIT_BIO", 0, 0),
      Event(1, "ADD_USER_BEATMAP", 0, 1),
      Event(1, "ADD_USER_BEATMAP", 0, 2),
      Event(2, "ADD_INFLUENCE", 7, 0) }

SpamTables == { TableOf(s) : s \in SeqsUpTo(SpamEvents, 1) }

InitSpamSpec ==
    /\ InitTracker(SpamTables, { MaxQueueSize }, { {1} })
    /\ InitSub
    /\ InitToken
    /\ InitCache
    /\ InitRequest({ 1 })
    /\ InitRetry({ 1 })
    /\ InitApp

NextSpam ==
    \/ TrackerStep
    \/ \E e \in SpamEvents : CreateActivity(e, MaxActivities)
    \/ \E i \in 1..MaxActivities : SpamPrevention(i)

SpecSpam == InitSpamSpec /\ [][NextSpam]_vars

\* ---- one user adding, deleting and ordering influences ----
OrderLists == SeqsUpTo(Targets, MaxOrderList)

InitEdgesSpec ==
    /\ InitTracker({ <<>> }, { 1 }, { {1} })
    /\ InitSub
    /\ InitToken
    /\ InitCache
    /\ InitRequest({ 1 })
    /\ InitRetry({ 1 })
    /\ InitApp

NextEdges ==
    \/ \E t \in Targets : AddInfluenceRelation(t)
    \/ \E t \in Targets : RemoveInfluenceRelation(t)
    \/ \E order \in OrderLists : SetInfluenceOrder(order)
    \/ GetInfluences(0, 100)

SpecEdges == InitEdgesSpec /\ [][NextEdges]_vars

\* ---- the influence handlers enriching what the database returned ----
InitEnrichSpec ==
    /\ InitTracker({ <<>> }, { 1 }, SUBSET BeatmapIds)
    /\ InitSub
    /\ InitToken
    /\ InitCache
    /\ InitRequest({ 1 })
    /\ InitRetry({ 1 })
    /\ InitLbIdle
    /\ InitWeb
    /\ InitOauth
    /\ InitDaily({ <<>> })
    /\ InitSpam
    /\ InitEdges
    /\ InitEnrich(SeqsUpTo(EdgeBeatmaps, 2))
    /\ InitLive
    /\ InitRefresh

NextEnrich ==
    \/ \E ok \in BOOLEAN : SwapBeatmaps(ok)
    \/ \E ok \in BOOLEAN : GetUserInfluences(ok)

SpecEnrich == InitEnrichSpec /\ [][NextEnrich]_vars

\* ---- the streaming task losing and re-establishing its live query ----
ReconnectEvents ==
    { Event(1, "ADD_INFLUENCE", 7, 0),
      Event(2, "ADD_USER_BEATMAP", 0, 1) }

ReconnectTables == { TableOf(s) : s \in SeqsUpTo(ReconnectEvents, 1) }

InitReconnect ==
    /\ InitTracker(ReconnectTables, { MaxQueueSize }, { {1} })
    /\ InitSub
    /\ InitToken
    /\ InitCache
    /\ InitRequest({ 1 })
    /\ InitRetry({ 1 })
    /\ InitApp

NextReconnect ==
    \/ TrackerStep
    \/ StreamReconnectSleep
    \/ \E ok \in BOOLEAN : StreamReconnect(ok)
    \/ \E e \in ReconnectEvents :
          /\ stream_status = "open"
          /\ CreateActivity(e, MaxActivities)
    \/ \E e \in ReconnectEvents : CreateActivityUnobserved(e, MaxActivities)
    \/ \E status \in { "closed", "failed" } : StreamFail(status)
    \/ SerializationError

SpecReconnect == InitReconnect /\ [][NextReconnect]_vars

\* the task runs whenever it can, and a reconnect that is tried again and
\* again succeeds
SpecReconnectFair ==
    /\ SpecReconnect
    /\ WF_vars(TrackerStep)
    /\ WF_vars(StreamReconnectSleep)
    /\ WF_vars(\E ok \in BOOLEAN : StreamReconnect(ok))
    /\ SF_vars(StreamReconnect(TRUE))

\* ---- the token task with tokens of different lifetimes ----
NextRefresh ==
    \/ LoopAwaitStart
    \/ \E e \in GrantedExpiresIn, ok \in BOOLEAN : LoopAcquire(e, ok)
    \/ LoopUpdate
    \/ LoopEndSend
    \/ LoopSleepFor
    \/ LoopRefreshUpdate
    \/ CallGetTokenOnly(1)
    \/ CallSendStart(1)
    \/ CallTakeEnd(1)
    \/ CallAwaitEnd(1)
    \/ CallAgain(1)

SpecRefresh == InitTokenSpec /\ [][NextRefresh]_vars

\* the backfill alone, over a table nothing else writes to: records the
\* filter always rejects, records it rejects after one of their kind, and
\* records it accepts, so that the walk needs one, two or three pages
BackfillEvents ==
    { Event(1, "LOGIN", 0, 0),
      Event(1, "EDIT_BIO", 0, 0),
      Event(1, "ADD_INFLUENCE", 7, 0) }

BackfillTables == { TableOf(s) : s \in SeqsUpTo(BackfillEvents, MaxBackfillTable) }

InitBackfill ==
    /\ InitTracker(BackfillTables, 1..MaxQueueSize, { {1} })
    /\ InitSub
    /\ InitToken
    /\ InitCache
    /\ InitRequest({ 1 })
    /\ InitRetry({ 1 })
    /\ InitApp

NextBackfill ==
    \/ InitialFetch
    \/ InitialSpam
    \/ InitialPush
    \/ InitialSwap

SpecBackfill == InitBackfill /\ [][NextBackfill]_vars

\* the startup task is a running future: each of its steps is taken
SpecBackfillFair ==
    SpecBackfill /\ WF_vars(InitialFetch) /\ WF_vars(InitialSpam) /\ WF_vars(InitialPush)

\* every operation of the TTL cache, set_multiple included
NextTtlAll ==
    \/ \E k \in Ids : CacheSet(k)
    \/ \E keys \in IdLists : CacheSetMultiple(keys)
    \/ \E k \in Ids : CacheGet(k)
    \/ \E keys \in IdLists : CacheGetMultiple(keys)
    \/ \E k \in Ids : CacheGetOrSetWith(k)
    \/ \E k \in Ids : CacheRemove(k)
    \/ Tick

SpecTtlAll == InitTtlSpec /\ [][NextTtlAll]_vars

(***************************************************************************)
(* Properties of the token manager (SpecToken).                            *)
(***************************************************************************)
\* C1: every get_access_token call that starts while the token is absent
\* returns a non-empty token; no call panics, under every interleaving.
C1_EveryCallReturnsToken ==
    \A c \in Callers :
        /\ caller_pc[c] # "panicked"
        /\ caller_pc[c] = "done" => caller_token[c] # 0

(***************************************************************************)
(* Properties of the activity tracker.                                     *)
(***************************************************************************)
\* the ring still is what the last run of the filter saw: the filter said no,
\* or the accepted activity has not been pushed yet
RingAsFiltered ==
    \/ ~spam_result
    \/ task_pc \in { "push_initial", "get_beatmaps", "add" }

\* ring entries by the actor of a, of the given kinds
Prior(a, kinds) ==
    { i \in 1..Len(activity_queue) :
        activity_queue[i].user = a.user /\ activity_queue[i].kind \in kinds }

\* C2: an append that finds the ring at capacity evicts exactly the oldest
\* activity of the ring (earliest created_at) and keeps the order of the rest,
\* for rings filled by the backfill as well as by live appends.
C2_AppendEvictsOldest ==
    [][ (task_pc = "add" /\ task_pc' = "send" /\ Len(activity_queue) = queue_size)
        => /\ \A i \in 1..Len(activity_queue) :
                 activity_queue[1].created_at <= activity_queue[i].created_at
           /\ activity_queue' = Append(Tail(activity_queue), new_activity) ]_vars

\* what the subscriber has been given of activity a: once if the snapshot
\* holds it, and once per broadcast frame of it, buffered or already sent
Deliveries(a) ==
    (IF a \in Range(initial_message[2]) THEN 1 ELSE 0)
    + Cardinality({ j \in 1..Len(broadcast_receiver) : broadcast_receiver[j] = to_string(a) })
    + Cardinality({ j \in 2..Len(ws_frames) : ws_frames[j] = to_string(a) })

\* C3: every accepted activity reaches a subscriber that connects while the
\* task is streaming exactly once, in the snapshot or as one broadcast frame,
\* under every interleaving of new_connection with append-then-broadcast.
C3_DeliveredExactlyOnce ==
    (sub_pc \in { "subscribed", "open" } /\ task_pc # "send")
        => \A i \in 1..Len(activity_queue) : Deliveries(activity_queue[i]) = 1

OtherKinds == { "LOGIN", "REMOVE_INFLUENCE", "REMOVE_USER_BEATMAP",
                "REMOVE_INFLUENCE_BEATMAP" }

\* C4: a LOGIN, REMOVE_INFLUENCE, REMOVE_USER_BEATMAP or
\* REMOVE_INFLUENCE_BEATMAP event is never rejected by the spam filter.
C4_OtherEventsNeverRejected ==
    new_activity.kind \in OtherKinds => spam_result

\* C5: a new EDIT_BIO by U is rejected iff the ring holds an EDIT_BIO by U;
\* other entries by U do not cause rejection, and an accepted EDIT_BIO becomes
\* the tail of the ring.
C5_EditBioRejectedIffPriorEditBio ==
    /\ (new_activity.kind = "EDIT_BIO" /\ RingAsFiltered)
          => (~spam_result <=> Prior(new_activity, { "EDIT_BIO" }) # {})
    /\ (new_activity.kind = "EDIT_BIO" /\ task_pc = "send")
          => activity_queue[Len(activity_queue)] = new_activity

\* ring entries ADD_USER_BEATMAP by the actor of a: for the same beatmap id,
\* and for other ids
SameBeatmap(a) ==
    { i \in Prior(a, { "ADD_USER_BEATMAP" }) : activity_queue[i].beatmap = a.beatmap }
OtherBeatmap(a) ==
    { i \in Prior(a, { "ADD_USER_BEATMAP" }) : activity_queue[i].beatmap # a.beatmap }

C7_InfluenceRejectedIffSameTarget ==
    (new_activity.kind \in InfluenceKinds /\ RingAsFiltered)
        => (~spam_result <=>
              \E i \in Prior(new_activity, InfluenceKinds) :
                  activity_queue[i].influence = new_activity.influence)

\* an EDIT_INFLUENCE_DESC was rejected because of the ADD_INFLUENCE toward the
\* same target, with an entry of the same actor toward another target around
C7_Witness ==
    /\ task_pc = "next"
    /\ new_activity.kind = "EDIT_INFLUENCE_DESC"
    /\ ~spam_result
    /\ \E i, j \in 1..Len(activity_queue) :
          /\ activity_queue[i].kind = "ADD_INFLUENCE"
          /\ activity_queue[i].user = new_activity.user
          /\ activity_queue[i].influence = new_activity.influence
          /\ activity_queue[j].kind = "ADD_INFLUENCE"
          /\ activity_queue[j].user = new_activity.user
          /\ activity_queue[j].influence # new_activity.influence

\* C8: a new ADD_INFLUENCE_BEATMAP(U->T, b) is rejected exactly when the ring
\* holds at least 2 ADD_INFLUENCE_BEATMAP by U for the same T with another
\* beatmap id; entries for other targets do not count.
C8_RejectedAtTwoSameTarget ==
    (new_activity.kind = "ADD_INFLUENCE_BEATMAP" /\ RingAsFiltered)
        => (~spam_result <=>
              Cardinality({ i \in Prior(new_activity, { "ADD_INFLUENCE_BEATMAP" }) :
                              /\ activity_queue[i].influence = new_activity.influence
                              /\ activity_queue[i].beatmap # new_activity.beatmap }) >= 2)

\* C9: the ring never holds more than queue_size activities.
C9_RingBounded ==
    Len(activity_queue) <= queue_size

\* a live append has just happened on a full ring of more than one activity
C9_Witness ==
    /\ task_pc = "send"
    /\ queue_size > 1
    /\ Len(activity_queue) = queue_size
    /\ Len(activity_table) > queue_size

(***************************************************************************)
(* Properties of the cached requester (SpecCache).                         *)
(***************************************************************************)
Entries(k) == { i \in 1..Len(store) : store[i].key = k }

\* C10: each of two concurrent get_multiple_osu(S) calls returns exactly the
\* ids of S upstream resolves, and afterwards the cache holds exactly one
\* entry per resolved id of S.
C10_ConcurrentCallsMerge ==
    /\ \A r \in Requesters :
          (req_pc[r] = "done" /\ req_result[r].ok)
             => req_result[r].map = Range(req_ids[r]) \cap upstream
    /\ (/\ \A r \in Requesters : req_pc[r] = "done" /\ req_result[r].ok
        /\ Range(req_ids[1]) = Range(req_ids[2]))
          => \A k \in Range(req_ids[1]) \cap upstream : Cardinality(Entries(k)) = 1

\* both calls missed the same resolved id and fetched it, one of them merging
\* the fetch with a cache hit
C10_Witness ==
    /\ \A r \in Requesters : req_pc[r] = "done" /\ req_result[r].ok
    /\ Range(req_ids[1]) = Range(req_ids[2])
    /\ \E k \in upstream :
          k \in Range(misses_requested[1]) /\ k \in Range(misses_requested[2])
    /\ cache_result[1].hits # {}

(***************************************************************************)
(* Properties of the request client (SpecRequest).                         *)
(***************************************************************************)
\* C11: at every moment at most concurrent_requests requests are in flight
\* (sent, body not yet read), whatever the callers and chunks, and a request
\* holds its permit from before it is sent until its body has been read.
C11_InFlightBounded ==
    /\ Cardinality(InFlight) <= concurrent_requests
    /\ \A t \in Requests : http_pc[t] \in { "send", "sent" } => permit[t]

\* every permit is taken by a request in flight while a handler of the
\* request_multiple call and a request of another caller wait for one
C11_Witness ==
    /\ Cardinality(InFlight) = concurrent_requests
    /\ \E t \in Range(handlers) : http_pc[t] = "acquire"
    /\ \E t \in DirectRequests : http_pc[t] = "acquire"
    /\ \E t \in Range(handlers) : t \in InFlight

NumChunks(n) == (n + chunk_size - 1) \div chunk_size

RECURSIVE Concat(_)
Concat(seqs) == IF seqs = <<>> THEN <<>> ELSE Head(seqs) \o Concat(Tail(seqs))

HandlerChunks == [i \in 1..Len(handlers) |-> http_chunk[handlers[i]]]

GetsOfCall == Cardinality({ t \in Range(handlers) : gets_issued[t] = 1 })

\* C12: request_multiple over n ids issues exactly ceil(n / 50) GETs (none
\* for n = 0), every id is in exactly one chunk of at most 50 ids, and the
\* result is the concatenation of the chunks' inner arrays in chunk order.
C12_ChunkedRequests ==
    rm_pc # "idle" =>
        /\ Len(handlers) = NumChunks(Len(rm_keys))
        /\ \A i \in 1..Len(handlers) : Len(HandlerChunks[i]) \in 1..chunk_size
        /\ Concat(HandlerChunks) = rm_keys
        /\ \A t \in Range(handlers) :
              /\ gets_issued[t] <= 1
              /\ gets_issued[t] = 1 <=> http_pc[t] \in { "sent", "done" }
        /\ (\A t \in Range(handlers) : http_pc[t] = "done")
              => GetsOfCall = NumChunks(Len(rm_keys))
        /\ (rm_pc = "done" /\ rm_result.ok) =>
              /\ GetsOfCall = NumChunks(Len(rm_keys))
              /\ rm_result.value =
                    Concat([i \in 1..Len(handlers) |-> http_body[handlers[i]].inner])
              /\ rm_result.value = response_inner(rm_keys, upstream)

\* a call over more than two chunks' worth of ids returned the concatenation
C12_Witness ==
    /\ rm_pc = "done"
    /\ rm_result.ok
    /\ Len(rm_keys) > 2 * chunk_size
    /\ Len(rm_result.value) = Len(rm_keys) - 1

ChunkFailed(t) ==
    \/ http_pc[t] = "panicked"
    \/ http_pc[t] = "done" /\ http_body[t].kind # "object_of_array"

\* C13: if any chunk request fails (transport error, task failure, a body
\* without the outer object / array layer) the call returns an error and no
\* partial result, however many other chunks succeeded.
C13_AnyChunkFailureFailsCall ==
    (rm_pc = "done" /\ \E t \in Range(handlers) : ChunkFailed(t))
        => ~rm_result.ok /\ rm_result.value = <<>>

\* the call returned an error although two of its three chunks succeeded
C13_Witness ==
    /\ rm_pc = "done"
    /\ ~rm_result.ok
    /\ Len(handlers) = 3
    /\ Cardinality({ t \in Range(handlers) : ChunkFailed(t) }) = 1
    /\ \E t \in Range(handlers) : http_body[t].kind = "not_array"
    /\ Cardinality({ t \in Range(handlers) :
                       http_pc[t] = "done" /\ http_body[t].inner # <<>> }) = 2

(***************************************************************************)
(* Properties of the token manager's lazy start (SpecToken).               *)
(***************************************************************************)
\* the background task has not reached the sleep that ends at the refresh
\* boundary (expires_in - buffer_time after the first acquisition)
BeforeRefreshBoundary ==
    /\ loop_pc \notin { "refresh", "refresh_update" }
    /\ loop_token <= 1

C14_NoRequestBeforeFirstCall == start_sender => token_log = <<>>

C14_OneRequestWhenItSucceeds ==
    (BeforeRefreshBoundary /\ token_log # <<>> /\ token_log[1] = "ok")
        => Len(token_log) = 1

\* C14: no token request is issued before the first get_access_token call;
\* the first call causes exactly one request when that request succeeds;
\* every later call made before the refresh boundary returns the stored token
\* and causes no token request.
C14_LazySingleTokenRequest ==
    /\ C14_NoRequestBeforeFirstCall
    /\ C14_OneRequestWhenItSucceeds
    /\ BeforeRefreshBoundary =>
          \A c \in Callers :
              /\ caller_pc[c] # "panicked"
              /\ caller_pc[c] = "done" => caller_token[c] = token /\ token # 0

\* C15: the first token is written before the end signal is sent, so the call
\* that triggered initialization returns only once the token is present and
\* returns that token, also when the first attempts failed and were retried.
C15_TokenBeforeEndSignal ==
    [][ /\ end_channel' => token' # 0
        /\ \A c \in Callers :
              caller_pc[c] \in { "end_receiver", "await_end" } =>
                  /\ caller_pc'[c] # "panicked"
                  /\ caller_pc'[c] = "done" =>
                        caller_token'[c] = token' /\ token' # 0 ]_vars

\* the triggering call is released after a failed and a successful attempt
C15_Witness ==
    /\ \E c \in Callers : caller_pc[c] = "await_end"
    /\ end_channel
    /\ token = 1
    /\ Len(token_log) >= 2
    /\ token_log[1] = "err"

(***************************************************************************)
(* Properties of the retry harness (SpecRetry, SpecRetryFair).             *)
(***************************************************************************)
ClaimedSleeps == <<1, 1, 2, 3, 5, 8, 13, 21, 34, 55>>

ClaimedSleep(i) ==
    IF i <= Len(ClaimedSleeps) THEN ClaimedSleeps[i] ELSE caller_longest_cooldown

\* C16: with longest_cooldown = 60 and an operation that asks for a retry on
\* every attempt, the sleeps after the 1st, 2nd, ... failure are exactly
\* 1, 1, 2, 3, 5, 8, 13, 21, 34, 55 seconds and then 60 seconds.
C16_FibonacciSleeps ==
    (longest_cooldown = caller_longest_cooldown /\ Len(sleeps) = attempts_made)
        => \A i \in 1..Len(sleeps) : sleeps[i] = ClaimedSleep(i)

\* C17: for every longest_cooldown >= 1 and every number of consecutive
\* failures, no single sleep is longer than longest_cooldown seconds.
C17_SleepCapped ==
    \A i \in 1..Len(sleeps) : sleeps[i] <= longest_cooldown

\* C18: retry_until_success returns only the Ok value of the wrapped
\* operation, after exactly n attempts when the n-th attempt is the first to
\* succeed; it does not return while the operation keeps failing, and it
\* returns whenever the operation eventually succeeds.
C18_ReturnsFirstSuccess ==
    /\ [](retry_pc = "returned" =>
             /\ first_ok # 0
             /\ attempts_made = first_ok
             /\ retry_value = first_ok)
    /\ [](attempts_made < first_ok => retry_pc # "returned")
    /\ ((retry_pc = "retry" /\ first_ok # 0) ~> retry_pc = "returned")

\* a call returned at its third attempt after a Continue and a Retry failure
C18_Witness ==
    /\ retry_pc = "returned"
    /\ first_ok = 3
    /\ attempts_made = 3
    /\ Len(sleeps) = 1

(***************************************************************************)
(* Properties of the TTL cache (SpecTtl).                                  *)
(***************************************************************************)
Expired(e) == now - e.at > expire_in

ReadStep ==
    \/ \E k \in Ids : CacheGet(k)
    \/ \E keys \in IdLists : CacheGetMultiple(keys)

\* C19: once more than the TTL has elapsed since set(k, v), any read (get or
\* get_multiple) evicts the entry: it returns no value for k, and the size
\* afterwards is 0 when every entry is that old.
C19_ReadEvictsExpired ==
    [][ ReadStep =>
          /\ \A i \in 1..Len(store) :
                Expired(store[i]) =>
                    /\ store[i].key \notin StoreKeys(store')
                    /\ store[i].key \notin cache_return'.hits
          /\ (\A i \in 1..Len(store) : Expired(store[i])) => Len(store') = 0 ]_vars

\* a read of a key found its entry and another one expired, returned nothing
\* and left the cache empty
C19_Witness ==
    /\ cache_return.op \in { "cache_get", "get_multiple" }
    /\ cache_return.keys \cap cache_return.evicted # {}
    /\ Cardinality(cache_return.evicted) >= 2
    /\ cache_return.hits = {}
    /\ Len(store) = 0

SweepStep == ReadStep \/ \E k \in Ids : CacheGetOrSetWith(k)

\* C20: entries leave the cache in the order of their most recent set: the
\* entry set first is evicted first, and a set of an existing key gives it a
\* fresh timestamp and moves it to the tail, behind every entry set before.
C20_EvictionFollowsSetOrder ==
    [][ /\ \A i, j \in 1..Len(store) :
              (SweepStep /\ i < j /\ store[j] \notin Range(store'))
                  => store[i] \notin Range(store')
        /\ \A k \in Ids :
              CacheSet(k) =>
                  /\ store'[Len(store')] = [key |-> k, at |-> now]
                  /\ SelectSeq(store', LAMBDA e : e.key # k)
                        = SelectSeq(store, LAMBDA e : e.key # k)
        /\ \A i, j \in 1..Len(store') : i < j => store'[i].at <= store'[j].at ]_vars

\* an existing key was set again and now stands at the tail, behind an entry
\* that was set earlier
C20_Witness ==
    /\ cache_return.op = "cache_set"
    /\ cache_return.hits # {}
    /\ Len(store) >= 2
    /\ store[Len(store)].key \in cache_return.keys
    /\ store[1].at < store[Len(store)].at

(***************************************************************************)
(* Properties of the leaderboard cache (SpecPagination, SpecLeaderboard).  *)
(***************************************************************************)
\* the single slice (start=0, limit=500) of key k
TopN(k) == slice(user_leaderboard(k, leaderboard_cache_limit, 0), 0,
                 leaderboard_cache_limit)

\* C21: with the database unchanged, the pages (start=0,limit=L),
\* (start=L,limit=L), ... that a client has received for one key, put
\* together, are the first rows of the single slice (start=0,limit=500), and
\* once the pages reach N = 500 they are that slice, whether a page came
\* from a hit or from a miss.
C21_PagesConcatenate ==
    /\ lb_pages.rows = slice(TopN(1), 0, lb_pages.n * lb_page_limit)
    /\ lb_pages.n * lb_page_limit >= leaderboard_cache_limit
          => lb_pages.rows = TopN(1)

\* a client has paged to the end of a leaderboard that is longer than N, in
\* more than one page, the last page served from the cache
C21_Witness ==
    /\ Len(lb_db[1]) > leaderboard_cache_limit
    /\ lb_pages.n > 1
    /\ lb_pages.n * lb_page_limit >= leaderboard_cache_limit
    /\ Len(lb_pages.rows) = leaderboard_cache_limit
    /\ lb_response[1].queries = 0

\* the entry of key k has not outlived the TTL
LbFresh(k) ==
    \E i \in 1..Len(lb_store) :
        lb_store[i].key = k /\ now - lb_store[i].at <= expire_in

LbEntry(st, k) == { st[i] : i \in { j \in 1..Len(st) : st[j].key = k } }

\* an entry changes only by the add_leaderboard of a miss for its own key
LbEntryFrame ==
    \A k \in LbKeys :
        (/\ LbFresh(k)
         /\ ~ \E c \in LbClients : lb_query[c].key = k /\ GetLeaderboardAdd(c))
        => /\ LbEntry(lb_store', k) = LbEntry(lb_store, k)
           /\ lb_value'[k] = lb_value[k]

\* a get that finds no entry within the TTL goes to the database
LbFetchAgain ==
    \A c \in LbClients : \A q \in LbRequests(c) :
        (GetLeaderboardQuery(c, q.key, q.start, q.limit) /\ ~ LbFresh(q.key))
        => lb_pc'[c] = "db"

\* C22 as stated: the vector that a miss stored answers every get for the
\* key during the TTL that follows that store.
C22_ServedFromThatVector ==
    [][/\ \A a, c \in LbClients : \A q \in LbRequests(c) :
             (/\ lb_pc[a] = "idle"
              /\ lb_response[a].ok
              /\ lb_response[a].queries = 1
              /\ lb_query[a].key = q.key
              /\ now - lb_response[a].stored_at <= expire_in
              /\ GetLeaderboardQuery(c, q.key, q.start, q.limit))
             => /\ lb_response'[c] =
                       LbOk(slice(lb_fetched[a], q.start, q.limit), 0, 0)
                /\ lb_pc'[c] = "idle"
       /\ LbEntryFrame
       /\ LbFetchAgain]_vars

\* C22: while the entry of key k is within the TTL (300 s) of its latest
\* store, every get for k is answered by slicing the vector stored latest
\* under k, without a database or upstream call, for every start and limit;
\* requests for other keys neither replace nor change k's entry; a get that
\* finds the TTL of the latest store elapsed fetches again.
C22_ServedFromLatestVector ==
    [][/\ \A c \in LbClients : \A q \in LbRequests(c) :
             (GetLeaderboardQuery(c, q.key, q.start, q.limit) /\ LbFresh(q.key))
             => /\ lb_response'[c] =
                       LbOk(slice(lb_value[q.key], q.start, q.limit), 0, 0)
                /\ lb_pc'[c] = "idle"
       /\ LbEntryFrame
       /\ LbFetchAgain]_vars

\* a get was answered from the stored vector of a key whose aggregate has
\* changed in the database since, while the other key is cached too
C22_Witness ==
    \E c \in LbClients :
        /\ lb_pc[c] = "idle"
        /\ lb_response[c].ok
        /\ lb_response[c].queries = 0
        /\ LbFresh(lb_query[c].key)
        /\ lb_value[lb_query[c].key] # TopN(lb_query[c].key)
        /\ lb_response[c].body =
              slice(lb_value[lb_query[c].key], lb_query[c].start, lb_query[c].limit)
        /\ lb_response[c].body # <<>>
        /\ \A k \in LbKeys : LbFresh(k)

(***************************************************************************)
(* Properties of the middleware and the router (SpecAuth).                 *)
(***************************************************************************)
\* the cookie is a token the server signed that has not expired
ValidSession(cookie) ==
    /\ cookie # NoCookie
    /\ cookie.key = "server"
    /\ now <= cookie.expires_at

\* the response of the middleware to a request it rejects
Rejection(cookie) ==
    IF cookie = NoCookie THEN WebErr("MissingTokenCookie")
    ELSE WebErr("JwtVerification")

\* the request is answered with `response`, no handler runs, nothing changes
Rejected(response) ==
    /\ web_response' = response
    /\ web_pc' = "idle"
    /\ UNCHANGED <<dbVars, trackerVars, subVars>>

ProtectedRoutes == { route \in AuthRoutes : layered(route) }

C24_ActivityRoutesNeedSession ==
    /\ [][\A route \in { "GET /activity", "ANY /ws" }, cookie \in AuthCookies,
            body \in AuthBodies :
             (Route(route, cookie, body) /\ ~ ValidSession(cookie))
             => /\ Rejected(Rejection(cookie))
                /\ web_response'.status = 401]_vars
    /\ [][(GetLatestActivities \/ WsHandler)
             => web_request.cookie.key = "server"]_vars

(***************************************************************************)
(* Properties of the writing handlers (SpecWrites).                        *)
(***************************************************************************)
\* the beatmap ids the request being handled refers to
Referenced ==
    IF web_request.route = "PATCH /users/map"
    THEN { Head(web_request.body.beatmaps) }
    ELSE IF web_request.route = "POST /influence" /\ ~ web_request.body.has_beatmaps
    THEN {}
    ELSE Range(web_request.body.beatmaps)

BeatmapWrite == AddInfluence(TRUE) \/ AddInfluenceBeatmap \/ AddUserBeatmap

\* C25: a write that references beatmap ids succeeds only if upstream
\* returns every referenced id; if some id is absent upstream the request
\* fails with NonExistingMap (404) and no database write is performed.
C25_MissingBeatmapFailsWrite ==
    [][(BeatmapWrite /\ ~ (Referenced \subseteq upstream))
          => /\ web_response' = WebErr("NonExistingMap")
             /\ web_response'.status = 404
             /\ UNCHANGED dbVars]_vars

\* the part of C25 that holds: the showcase handler checks its one id
C25_ShowcaseBeatmapChecked ==
    [][(AddUserBeatmap /\ ~ (Referenced \subseteq upstream))
          => /\ web_response' = WebErr("NonExistingMap")
             /\ UNCHANGED dbVars]_vars

TooLong(text) == text > MAX_DESC_LENGTH

\* C26: no sequence of add-influence and update-description requests stores
\* a description longer than 5000 bytes; a request with a longer description
\* is rejected with StringTooLong (422) and the edge is left as it was.
C26_DescriptionBounded ==
    /\ [](\A u \in WebUsers : ~ TooLong(db_influence[u].description))
    /\ [][((AddInfluence(TRUE) \/ UpdateInfluenceDescription)
            /\ TooLong(web_request.body.text))
             => /\ web_response' = WebErr("StringTooLong")
                /\ web_response'.status = 422
                /\ UNCHANGED db_influence]_vars

\* the part of C26 that holds: update_influence_description checks the length
C26_UpdateDescriptionBounded ==
    [][UpdateInfluenceDescription
          => IF TooLong(web_request.body.text)
             THEN /\ web_response' = WebErr("StringTooLong")
                  /\ web_response'.status = 422
                  /\ UNCHANGED db_influence
             ELSE db_influence[web_extension.user_id].exists
                  => db_influence'[web_extension.user_id].description
                        = web_request.body.text]_vars

\* C27: a bio update longer than 5000 bytes is rejected with StringTooLong
\* (422) and the stored bio is unchanged; a bio of at most 5000 bytes is
\* stored.
C27_BioBounded ==
    [][UpdateUserBio
          => IF TooLong(web_request.body.text)
             THEN /\ web_response' = WebErr("StringTooLong")
                  /\ web_response'.status = 422
                  /\ UNCHANGED db_bio
             ELSE db_bio'[web_extension.user_id] = web_request.body.text]_vars

(***************************************************************************)
(* Properties of the OAuth redirect (SpecOauth).                           *)
(***************************************************************************)
\* the handler has returned Ok(redirect_response)
OauthSucceeded ==
    /\ oauth_pc = "idle"
    /\ oauth_returned # NoOauthResponse
    /\ oauth_returned.error = "none"

LoginRecorded(u) ==
    \E i \in 1..Len(activity_table) :
        activity_table[i].user = u /\ activity_table[i].kind = "LOGIN"

\* the two Set-Cookie headers: the session token and logged_in=true
TwoCookies(response) ==
    /\ Len(response.set_cookie) = 2
    /\ response.set_cookie[1].name = "user_token"
    /\ response.set_cookie[1].value.key = "server"
    /\ response.set_cookie[1].value.custom = AuthData(oauth_user)
    /\ response.set_cookie[2] = SetCookie("logged_in", "true", FALSE)

\* the session token is issued for the upstream expires_in
TokenLifetime ==
    OauthTokenUser(TRUE)
    => oauth_response'.set_cookie[1].value.expires_at = now + oauth_auth.expires_in

\* the flag is set only once the LOGIN row is appended and the user upserted
AuthenticatedAfterJoin ==
    db_authenticated' # db_authenticated
    => /\ LoginRecorded(oauth_user)
       /\ oauth_user \in db_users
       /\ oauth_joined = { "add_login_activity", "upsert_user" }

RedirectEffects ==
    /\ oauth_returned.location = "POST_LOGIN_REDIRECT_URI"
    /\ TwoCookies(oauth_returned)
    /\ LoginRecorded(oauth_user)
    /\ oauth_user \in db_users
    /\ oauth_user \in db_authenticated

\* C28: when the exchange, the user fetch and the database operations
\* succeed, the handler returns a 302 to POST_LOGIN_REDIRECT_URI with exactly
\* two Set-Cookie headers (user_token, a session token living for the
\* upstream expires_in, and logged_in=true); by then the LOGIN activity is
\* appended, the user upserted and the authenticated flag true, the flag
\* being set only after both the append and the upsert completed.
C28_RedirectAfterLogin ==
    /\ [](OauthSucceeded
            => /\ oauth_returned.status = Redirect_found("POST_LOGIN_REDIRECT_URI").status
               /\ RedirectEffects)
    /\ [][TokenLifetime /\ AuthenticatedAfterJoin]_vars

\* the part of C28 that holds: everything but the status code
C28_CookiesAndOrder ==
    /\ [](OauthSucceeded => RedirectEffects)
    /\ [][TokenLifetime /\ AuthenticatedAfterJoin]_vars

C28_SucceededReached == OauthSucceeded /\ Cardinality(db_authenticated) = 2

(***************************************************************************)
(* Properties of the daily update (SpecDaily).                             *)
(***************************************************************************)
Ids_of(attempts) == [i \in 1..Len(attempts) |-> attempts[i].user_id]

Succeeded(attempts) == SelectSeq(attempts, LAMBDA a : a.ok)

IsPrefix(s, t) == Len(s) <= Len(t) /\ s = SubSeq(t, 1, Len(s))

\* C29: update_once attempts every id of users_to_update exactly once and in
\* list order, one per tick; a failed fetch or a failed upsert for one id
\* neither stops nor repeats the processing of the other ids, and an upsert
\* is issued for an id only after the fetch of that id succeeded.
C29_EveryIdOnceInOrder ==
    /\ IsPrefix(Ids_of(update_fetches), users_to_update)
    /\ update_ticks = IF update_pc = "get_user_osu"
                      THEN Len(update_fetches) + 1
                      ELSE Len(update_fetches)
    /\ Ids_of(update_upserts) =
          Ids_of(IF update_pc = "upsert_user"
                 THEN SubSeq(Succeeded(update_fetches), 1,
                             Len(Succeeded(update_fetches)) - 1)
                 ELSE Succeeded(update_fetches))
    /\ update_pc = "returned" => Ids_of(update_fetches) = users_to_update

\* a run over three ids has returned after a failed fetch of one id and a
\* failed upsert of another, the third id fetched and upserted after them
C29_Witness ==
    /\ update_pc = "returned"
    /\ Len(users_to_update) = 3
    /\ ~ update_fetches[1].ok
    /\ Len(update_upserts) = 2
    /\ ~ update_upserts[1].ok
    /\ update_upserts[2].ok

(***************************************************************************)
(* Properties of the streaming task's skipped notifications (SpecStream).  *)
(***************************************************************************)
Streaming == task_pc \in { "next", "get_beatmaps", "add", "send" }

\* the ring and the subscriber's receiver are as they were
RingFrame == UNCHANGED <<activity_queue, broadcast_receiver>>

\* the streaming task takes the head of the stream
Consumes == task_pc = "next" /\ stream # <<>> /\ stream' = Tail(stream)

\* an update or delete notification is dropped
SkipsOtherActions ==
    (Consumes /\ Head(stream).action \in { "Update", "Delete" })
        => (RingFrame /\ task_pc' = "next")

\* a create notification that the spam filter rejects is dropped
SkipsSpam ==
    (Consumes /\ Head(stream).action = "Create"
              /\ ~spam_prevention(activity_queue, Head(stream).data))
        => (RingFrame /\ task_pc' = "next")

\* an event whose beatmap cannot be fetched is dropped
SkipsFailedEnrichment ==
    /\ (task_pc = "get_beatmaps" /\ task_pc' = "next") => RingFrame
    /\ (task_pc = "get_beatmaps" /\ task_pc' # task_pc
            /\ get_beatmap_id(new_activity) \notin upstream)
          => (RingFrame /\ task_pc' = "next")

\* while streaming the ring changes only by the append of the accepted event
RingChangesByAppend ==
    (Streaming /\ activity_queue' # activity_queue)
        => /\ task_pc = "add" /\ spam_result
           /\ activity_queue' # <<>>
           /\ activity_queue'[Len(activity_queue')] = new_activity

\* the receiver of a connected subscriber changes only by the broadcast of
\* the event that was appended
ReceiverChangesByBroadcast ==
    (sub_pc \in { "subscribed", "open" } /\ broadcast_receiver' # broadcast_receiver
        /\ Len(broadcast_receiver') >= Len(broadcast_receiver))
        => /\ task_pc = "send" /\ spam_result
           /\ broadcast_receiver'[Len(broadcast_receiver')] = to_string(new_activity)
           /\ new_activity \in Range(activity_queue)

\* an iteration gets past the filter only with an accepted event
PendingIsAccepted ==
    task_pc \in { "get_beatmaps", "add", "send" }
        => spam_result /\ new_activity # NoActivity

\* C30: the ring and the broadcast change only through an accepted create
\* notification: an update or delete notification, an event rejected by the
\* spam filter and an event whose beatmap enrichment fails each leave the
\* ring unchanged and broadcast nothing to subscribers.
C30_OnlyAcceptedCreatesChange ==
    /\ []PendingIsAccepted
    /\ [][ /\ SkipsOtherActions
           /\ SkipsSpam
           /\ SkipsFailedEnrichment
           /\ RingChangesByAppend
           /\ ReceiverChangesByBroadcast ]_vars

\* a subscriber is connected, three rows were written, one of them was
\* deleted, every notification was taken and only one event is in the ring
C30_Witness ==
    /\ sub_pc = "subscribed" /\ broadcast_receiver = <<>>
    /\ initial_message = to_string(activity_queue)
    /\ task_pc = "next" /\ stream = <<>>
    /\ Len(activity_table) = 3
    /\ \E i \in 1..3 : activity_table[i] = NoActivity
    /\ \E i \in 1..3 : get_beatmap_id(activity_table[i]) \notin upstream \cup { 0 }
    /\ Len(activity_queue) = 1

(***************************************************************************)
(* Properties of the spam filter as a function (SpecSpam).                 *)
(***************************************************************************)
\* two recorded calls that read equal rings and were given equal activities
SameInput(c, d) ==
    /\ spam_calls[c].queue = spam_calls[d].queue
    /\ spam_calls[c].activity = spam_calls[d].activity

Ordered == { i \in 1..Len(db_edges) : db_edges[i].order # NONE }

\* the list names every target of the user once
NamesEveryTarget(order) ==
    /\ Len(order) = Len(db_edges)
    /\ Range(order) = { db_edges[i].out : i \in 1..Len(db_edges) }

\* C32: after any sequence of add influence, delete influence and
\* set_influence_order calls, a list that names only some targets or repeats
\* a target included, the order values of the user's outgoing edges are
\* pairwise distinct.
C32_OrdersDistinct ==
    \A i, j \in Ordered : i # j => db_edges[i].order # db_edges[j].order

\* the second half of C32: after set_influence_order(U, list) with a list
\* that names every target of U once, get_influences(U, 0, 100) returns the
\* edges in the order of the list.
C32_ListedOrderReturned ==
    [][ \A order \in OrderLists :
          (SetInfluenceOrder(order) /\ NamesEveryTarget(order))
              => get_influences(db_edges', 0, 100) = { order } ]_vars

\* the user has edges to 3, 1 and 2 and get_influences returned them so
C32_ListedReached ==
    /\ Len(db_edges) = 3
    /\ C32_OrdersDistinct /\ Ordered = 1..3
    /\ influences_returned = <<3, 1, 2>>

(***************************************************************************)
(* Properties of the beatmap enrichment of influences (SpecEnrich).        *)
(***************************************************************************)
\* the enriched objects of the ids of an edge that resolve upstream, one per
\* resolving position, in the order of the edge
EnrichedInOrder(beatmaps) ==
    LET resolving == SelectSeq(beatmaps, LAMBDA b : b \in upstream)
    IN  [ i \in 1..Len(resolving) |-> All(resolving[i]) ]

\* C33: beatmap enrichment of an influence is order-preserving: for an edge
\* whose beatmaps are b1..bn the response holds the enriched objects of
\* exactly those ids that resolve upstream, in the order of the input, each
\* input position that resolves producing one output element.
C33_EnrichmentKeepsOrder ==
    (enrich_pc = "done" /\ enrich_response.ok)
        => /\ Len(enrich_response.body) = Len(influences)
           /\ \A e \in 1..Len(influences) :
                 enrich_response.body[e] = EnrichedInOrder(influences[e])

\* a page of two edges that share a beatmap, one of them holding an id that
\* does not resolve between two that do, has been enriched
C33_Witness ==
    /\ enrich_pc = "done" /\ enrich_response.ok
    /\ Len(influences) = 2
    /\ Range(influences[1]) \cap Range(influences[2]) \cap upstream # {}
    /\ Len(influences[1]) = 3
    /\ influences[1][2] \notin upstream
    /\ Len(enrich_response.body[1]) = 2

(***************************************************************************)
(* Properties of the streaming task across reconnects (SpecReconnect,      *)
(* SpecReconnectFair).                                                     *)
(***************************************************************************)
\* rows past the first are written while the tracker is running
LiveRows == 2..(MaxActivities + 1)

\* the iteration for row i has ended with the filter's rejection
RowRejected(i) ==
    /\ task_pc = "next"
    /\ new_activity = activity_table[i]
    /\ ~spam_result

\* the iteration for row i has ended with the append and the broadcast
RowAppended(i) ==
    /\ task_pc = "next"
    /\ spam_result
    /\ new_activity = swap_beatmap_enum(activity_table[i])
    /\ new_activity \in Range(activity_queue)

RowSettled(i) ==
    /\ Len(activity_table) >= i
    /\ RowRejected(i) \/ RowAppended(i)

\* C34: every activity created in the database while the tracker is running
\* is eventually either rejected by the spam filter or appended to the ring
\* and broadcast, the ones created while the live stream is closed or failed
\* and is being re-established included.
C34_NoActivitySkipped ==
    \A i \in LiveRows : <>(Len(activity_table) >= i) => <>RowSettled(i)

\* the positions of the task in its loop
Running == { "next", "get_beatmaps", "add", "send", "reconnect" }

\* a serialization error is skipped on the same stream, without a sleep
SerializationSkipped ==
    (Consumes /\ Head(stream).action = "Serialization")
        => /\ task_pc' = "next"
           /\ UNCHANGED <<activity_queue, broadcast_receiver, stream_status,
                          retry_attempt, stream_retry_cooldown>>

\* the task sleeps and reconnects only when the stream is closed or failed
ReconnectsOnlyWhenLost ==
    (task_pc' = "reconnect" \/ retry_attempt' # retry_attempt
        \/ stream_retry_cooldown' # stream_retry_cooldown)
        => (stream_status \in { "closed", "failed" } /\ stream = <<>>)

\* C35: on a database serialization error the streaming task keeps the same
\* stream, with no reconnect and no sleep, leaves the ring unchanged and goes
\* on to the next notification; only a closed stream or another kind of
\* error makes it reconnect, and in no case does the task terminate.
C35_SerializationErrorSkipped ==
    [][ /\ SerializationSkipped
        /\ ReconnectsOnlyWhenLost
        /\ (task_pc \in Running) => (task_pc' \in Running) ]_vars

\* after one reconnect a serialization error is at the head of the new
\* stream, ahead of a create notification, and the ring holds an activity
C35_Witness ==
    /\ task_pc = "next" /\ stream_status = "open"
    /\ retry_attempt = 2
    /\ Len(stream) = 2
    /\ stream[1].action = "Serialization"
    /\ stream[2].action = "Create"
    /\ activity_queue # <<>>

(***************************************************************************)
(* Properties of the beatmaps held in the ring (SpecStream).               *)
(***************************************************************************)
\* the activity refers to a beatmap by its bare id
BareId(a) == a.kind \in BeatmapKinds /\ ~a.enriched

\* C36: after initialization and after any sequence of stream notifications
\* every activity in the ring that carries a beatmap carries the enriched
\* object and never a bare id, the activities whose id does not resolve in
\* the initial bulk lookup included, so no snapshot or broadcast frame
\* exposes a bare id.
C36_RingHoldsNoBareId ==
    /\ Streaming => \A i \in 1..Len(activity_queue) : ~BareId(activity_queue[i])
    /\ sub_pc # "closed" =>
          \A i \in 1..Len(initial_message[2]) : ~BareId(initial_message[2][i])

\* the part of C36 about the streaming task: what it appends and broadcasts
\* is never a bare id
C36_StreamAppendsNoBareId ==
    [][ (Streaming /\ activity_queue' # activity_queue)
          => ~BareId(activity_queue'[Len(activity_queue')]) ]_vars

(***************************************************************************)
(* Properties of the token task's refresh times (SpecRefresh).             *)
(***************************************************************************)
\* every sleep lasts the lifetime of the token acquired before it, less the
\* buffer time
SleepsFollowAcquired ==
    \A i \in 1..Len(loop_sleeps) :
        loop_sleeps[i].expires_in >= buffer_time
            => loop_sleeps[i].secs = loop_sleeps[i].expires_in - buffer_time

\* when the task goes to sleep the slot holds the token acquired last
TokenReplaced == loop_pc = "sleep" => token = loop_token

\* a stored token is replaced by a token, never by nothing
SlotStaysFilled == token # 0 => token' # 0

\* C37: after every token acquisition, the first one and each refresh, the
\* background task replaces the stored token and starts the next acquisition
\* expires_in - 120 seconds later, expires_in being that of the token just
\* acquired; once a token has been stored the slot is never absent again.
C37_RefreshFollowsAcquiredToken ==
    /\ []SleepsFollowAcquired
    /\ []TokenReplaced
    /\ [][SlotStaysFilled]_vars

\* the parts of C37 about the slot
C37_SlotReplacedAndKept ==
    /\ []TokenReplaced
    /\ [][SlotStaysFilled]_vars

\* the sleep after the first acquisition lasts that token's lifetime less
\* the buffer time
C37_FirstSleepFollowsFirstToken ==
    [][ (loop_sleeps = <<>> /\ loop_sleeps' # <<>>)
          => loop_sleeps'[1].secs = acquired_expires_in - buffer_time ]_vars

\* three tokens were acquired and stored, and the task slept in between
C37_RefreshReached ==
    /\ loop_token = 3 /\ token = 3
    /\ Len(loop_sleeps) = 2
    /\ loop_pc = "sleep"

(***************************************************************************)
(* Properties of the startup backfill (SpecBackfill).                      *)
(***************************************************************************)
\* every record of the table, in the order get_activities returns them
Listing == get_activities(activity_table, Len(activity_table), 0)

\* the records of a listing that pass the filter, each one judged against the
\* records kept before it
RECURSIVE accepted_of(_, _)
accepted_of(records, kept) ==
    IF records = <<>> THEN kept
    ELSE accepted_of(Tail(records),
                     IF spam_prevention(kept, Head(records))
                     THEN Append(kept, Head(records)) ELSE kept)

BackfillDone == task_pc = "swap_beatmaps"

\* a page is asked for at a multiple of 2 * Q and holds at most 2 * Q records
PagesOfTwiceQ ==
    /\ index % (2 * queue_size) = 0
    /\ activity_chunk_len <= 2 * queue_size
    /\ Len(activity_queue) <= queue_size

\* another page is read only while the ring is short of Q and the page before
\* was full; the walk ends only with a full ring or a short page
StopsAtOnce ==
    /\ [][ (task_pc # "get_activities" /\ task_pc' = "get_activities")
            => /\ Len(activity_queue') < queue_size
               /\ activity_chunk_len = 2 * queue_size ]_vars
    /\ [](BackfillDone => \/ Len(activity_queue) = queue_size
                          \/ activity_chunk_len < 2 * queue_size)

RingIsFirstAccepted ==
    LET all == accepted_of(Listing, <<>>)
    IN  activity_queue = SubSeq(all, 1, Min(queue_size, Len(all)))

\* C38: set_initial_activities terminates for every table and every Q >= 1,
\* reads pages of 2 * Q records, stops as soon as the ring holds Q activities
\* or a page is shorter than 2 * Q, and leaves in the ring, in the order of
\* get_activities, the first min(Q, number accepted) records that pass the
\* spam filter judged against the records queued before them.
C38_BackfillTerminatesWithFirstAccepted ==
    /\ <>BackfillDone
    /\ []PagesOfTwiceQ
    /\ StopsAtOnce
    /\ [](BackfillDone => RingIsFirstAccepted)

\* the walk ended on its third page with a full ring, after rejecting records
C38_Witness ==
    /\ BackfillDone
    /\ index = 2 * (2 * queue_size)
    /\ Len(activity_queue) = queue_size
    /\ Len(accepted_of(Listing, <<>>)) < Len(activity_table)

\* the walk ended on a short page with the ring short of Q
C38_ShortPageReached ==
    /\ BackfillDone
    /\ index > 0
    /\ Len(activity_queue) < queue_size
    /\ activity_chunk_len \in 1..(2 * queue_size - 1)

(***************************************************************************)
(* Properties of a failing get_multiple_osu (SpecCache).                   *)
(***************************************************************************)
\* st2 is st1 without some of its head entries, all of them expired at time t
SweptOnly(st1, st2, t) ==
    \E n \in 0..Len(st1) :
        /\ st2 = SubSeq(st1, n + 1, Len(st1))
        /\ \A i \in 1..n : t - st1[i].at > expire_in

\* requester r takes the first step of a call: the locked get_multiple
CallStarts(r) == req_pc[r] # "request_multiple" /\ req_pc'[r] = "request_multiple"

\* requester r takes the step that ends its call with the error
CallFails(r) ==
    /\ req_pc[r] = "request_multiple"
    /\ req_pc'[r] = "done"
    /\ req_result'[r] = Err

\* C39: a get_multiple_osu call that returns an error changes the cache by its
\* sweep of expired entries only: the step that fails inserts nothing, values
\* of chunks that succeeded included, and it fails without the lock, as a
\* step of its own after the locked lookup.
C39_FailedCallOnlySweeps ==
    [][ \A r \in Requesters :
          /\ CallStarts(r) => SweptOnly(store, store', now)
          /\ CallFails(r) => store' = store ]_vars

\* a call failed after a partial hit, the cache still holding entries
C39_Witness ==
    /\ req_pc[1] = "done"
    /\ req_result[1] = Err
    /\ cache_result[1].hits # {}
    /\ cache_result[1].misses # <<>>
    /\ \E k \in Range(cache_result[1].misses) : k \in upstream
    /\ \A k \in Range(cache_result[1].misses) : k \notin StoreKeys(store)
    /\ store # <<>>

\* the lock is free during the upstream call: while requester 1 waits for its
\* misses, another requester has inserted one of them
C39_InsertedDuringUpstreamCall ==
    /\ req_pc[1] = "request_multiple"
    /\ \E k \in Range(cache_result[1].misses) : k \in StoreKeys(store)

(***************************************************************************)
(* Properties of the TTL cache under every operation (SpecTtlAll).         *)
(***************************************************************************)
InTimestampOrder(st) == \A i, j \in 1..Len(st) : i < j => st[i].at <= st[j].at

\* the operations that sweep before they look: the clock stands still in them
SweepingStep ==
    \/ \E k \in Ids : CacheGet(k)
    \/ \E keys \in IdLists : CacheGetMultiple(keys)
    \/ \E k \in Ids : CacheGetOrSetWith(k)

\* C40: under any sequence of set, set_multiple, get, get_multiple,
\* get_or_set_with and remove the stored entries stand in non-decreasing
\* timestamp order from head to tail, so that a sweep leaves no entry older
\* than the TTL and no read returns a value older than the TTL.
C40_TimestampOrderMakesSweepComplete ==
    /\ []InTimestampOrder(store)
    /\ [][ SweepingStep =>
              /\ \A i \in 1..Len(store') : now - store'[i].at <= expire_in
              /\ \A k \in cache_return'.hits :
                    \E i \in 1..Len(store') :
                        store'[i].key = k /\ now - store'[i].at <= expire_in ]_vars

\* a read swept an expired entry from the head, found a fresh one and left two
\* entries of different age
C40_Witness ==
    /\ cache_return.op \in { "cache_get", "get_multiple" }
    /\ cache_return.evicted # {}
    /\ cache_return.hits # {}
    /\ Len(store) >= 2
    /\ store[1].at < store[Len(store)].at

\* a set_multiple refreshed a key that stood at the head and moved it behind
\* an older entry
C40_SetMultipleReached ==
    /\ cache_return.op = "set_multiple"
    /\ cache_return.hits # {}
    /\ Len(store) >= 2
    /\ store[1].at < store[Len(store)].at
    /\ store[Len(store)].key \in cache_return.hits

=============================================================================
